---- MODULE Spec2Model ----
(***************************************************************************)
(* A model of azure-cli's resource command module                          *)
(* (azure/cli/command_modules/resource/custom.py).                         *)
(*                                                                         *)
(* Python strings are sequences of one-character strings, so that          *)
(* str.lower(), str.split('/'), the 'in' substring test and '+' are        *)
(* computed as Python computes them.  Python's None is the value None.     *)
(***************************************************************************)
EXTENDS Integers, Sequences, FiniteSets, TLC

(***************************************************************************)
(* Bounds of the model.                                                    *)
(***************************************************************************)
\* longest list of API versions a declared resource type carries
MaxVersions == 2
\* longest list of resource types a provider declares
MaxTypes == 2
\* longest list of parameter documents
MaxDocs == 2
\* most empty answers given at the prompts for one parameter
MaxEmptyAnswers == 2
\* most policy assignments a listing call answers
MaxAssignments == 2
\* longest list of details an export error carries
MaxDetails == 2
\* longest list of ids given to move_resource
MaxIds == 2

(***************************************************************************)
(* Python values.                                                          *)
(***************************************************************************)
None == <<"None">>

\* bool(x) of a string-or-None value: None and '' are falsy
Truthy(x) == x # None /\ x # <<>>

UpperLetters == <<"A","B","C","D","E","F","G","H","I","J","K","L","M",
                  "N","O","P","Q","R","S","T","U","V","W","X","Y","Z">>

LowerLetters == <<"a","b","c","d","e","f","g","h","i","j","k","l","m",
                  "n","o","p","q","r","s","t","u","v","w","x","y","z">>

\* one character of str.lower()
LowerChar(c) ==
    IF \E i \in 1..Len(UpperLetters) : UpperLetters[i] = c
    THEN LowerLetters[CHOOSE i \in 1..Len(UpperLetters) : UpperLetters[i] = c]
    ELSE c

\* str.lower()
Lower(s) == [i \in 1..Len(s) |-> LowerChar(s[i])]

\* pat in s
Contains(s, pat) ==
    \E i \in 0..(Len(s) - Len(pat)) : SubSeq(s, i + 1, i + Len(pat)) = pat

\* s.split(sep): the segments between the separators, empty ones included
RECURSIVE Split(_, _)
Split(s, sep) ==
    IF \A i \in 1..Len(s) : s[i] # sep
    THEN <<s>>
    ELSE LET i == CHOOSE k \in 1..Len(s) :
                      s[k] = sep /\ \A j \in 1..(k - 1) : s[j] # sep
         IN  <<SubSeq(s, 1, i - 1)>> \o Split(SubSeq(s, i + 1, Len(s)), sep)

\* sep.join(parts)
RECURSIVE Join(_, _)
Join(parts, sep) ==
    IF parts = <<>> THEN <<>>
    ELSE IF Len(parts) = 1 THEN parts[1]
    ELSE parts[1] \o <<sep>> \o Join(Tail(parts), sep)

\* the sequences over S of length at most n
SeqUpTo(S, n) == UNION {[1..k -> S] : k \in 0..n}

Preview == <<"p","r","e","v","i","e","w">>


(***************************************************************************)
(* The state.                                                              *)
(*   providers     what rcf.providers.get answers: namespace -> the list   *)
(*                 of declared resource types (resource_type, api_versions)*)
(*   rpc           the position of _ResourceUtils.__init__                 *)
(*   args          the arguments __init__ was called with                  *)
(*   resource_provider_namespace, resource_type, api_version               *)
(*                 the locals of __init__ that it reassigns                *)
(*   resolve_calls the calls of _resolve_api_version made so far, each     *)
(*                 with the type string it looked up                       *)
(*   calls         the remote calls made so far                            *)
(*   rerror        the exception raised, if any                            *)
(*   utils         the fields of the constructed _ResourceUtils            *)
(***************************************************************************)
VARIABLES providers, rpc, args, resource_provider_namespace, resource_type,
          api_version, resolve_calls, calls, rerror, utils

resVars == <<providers, rpc, args, resource_provider_namespace, resource_type,
             api_version, resolve_calls, calls, rerror, utils>>

VARIABLES dpc, dargs, file_json, parameters, template, missing, pending,
          result, prompts, prompt_parameters, submitted, derror

depVars == <<dpc, dargs, file_json, parameters, template, missing, pending,
             result, prompts, prompt_parameters, submitted, derror>>

(***************************************************************************)
(* The state of the other commands (list_resources, the lock, policy,      *)
(* export and move commands), one command running at a time.               *)
(*   command   the command that was called                                 *)
(*   cpc       its position                                                *)
(*   cargs     the arguments it was called with                            *)
(*   locals    its local variables, those it reassigns included            *)
(*   service   what the remote service holds and answers                   *)
(*   remote    the remote calls made so far                                *)
(*   returned  the value returned                                          *)
(*   printed   what was printed                                            *)
(*   cerror    the exception raised, if any                                *)
(***************************************************************************)
VARIABLES command, cpc, cargs, locals, service, remote, returned, printed, cerror

cmdVars == <<command, cpc, cargs, locals, service, remote, returned, printed, cerror>>

NoError == [type |-> "none", msg |-> "", arg |-> <<>>]

UsageError(m, a) == [type |-> "IncorrectUsageError", msg |-> m, arg |-> a]

CLIError(m) == [type |-> "CLIError", msg |-> m, arg |-> <<>>]

(***************************************************************************)
(* _ResourceUtils._resolve_api_version                                     *)
(***************************************************************************)
\* the type string looked up: the parent's top-level type when there is one
ResourceTypeStr(parent, rtype) ==
    IF Truthy(parent) THEN Split(parent, "/")[1] ELSE rtype

\* the match made case-sensitive
MatchingTypesCaseSensitive(types, type_str) ==
    LET Match(t) == t.resource_type = type_str
    IN  SelectSeq(types, Match)

\* rt: the declared types whose name equals type_str, case ignored
MatchingTypes(types, type_str) ==
    LET Match(t) == Lower(t.resource_type) = Lower(type_str)
    IN  SelectSeq(types, Match)

\* the preview test made case-sensitive
NonPreviewCaseSensitive(versions) ==
    LET Stable(v) == ~Contains(v, Preview)
    IN  SelectSeq(versions, Stable)

\* npv: the versions without 'preview' in them, case ignored, in order
NonPreview(versions) ==
    LET Stable(v) == ~Contains(Lower(v), Preview)
    IN  SelectSeq(versions, Stable)

\* the ambiguity check dropped: the first match decides
ResolveApiVersionFirstMatch(types, parent, rtype) ==
    LET type_str == ResourceTypeStr(parent, rtype)
        rt       == MatchingTypes(types, type_str)
    IN  IF rt = <<>>
        THEN [version |-> None,
              error |-> UsageError("Resource type {} not found.", type_str)]
        ELSE IF rt[1].api_versions # <<>>
        THEN LET npv == NonPreview(rt[1].api_versions)
             IN  [version |-> IF npv # <<>> THEN npv[1] ELSE rt[1].api_versions[1],
                  error |-> NoError]
        ELSE [version |-> None,
              error |-> UsageError("API version is required and could not be resolved for resource {}", rtype)]

\* the version resolved from a provider's declared types, or the error raised
ResolveApiVersion(types, parent, rtype) ==
    LET type_str == ResourceTypeStr(parent, rtype)
        rt       == MatchingTypes(types, type_str)
    IN  IF rt = <<>>
        THEN [version |-> None,
              error |-> UsageError("Resource type {} not found.", type_str)]
        ELSE IF Len(rt) = 1 /\ rt[1].api_versions # <<>>
        THEN LET npv == NonPreview(rt[1].api_versions)
             IN  [version |-> IF npv # <<>> THEN npv[1] ELSE rt[1].api_versions[1],
                  error |-> NoError]
        ELSE [version |-> None,
              error |-> UsageError("API version is required and could not be resolved for resource {}", rtype)]

\* self.<field> = <local>, the end of __init__
StoreFields(version) ==
    utils' = [resource_group_name         |-> args.resource_group_name,
              resource_provider_namespace |-> resource_provider_namespace,
              parent_resource_path        |-> args.parent_resource_path,
              resource_type               |-> resource_type,
              resource_name               |-> args.resource_name,
              resource_id                 |-> args.resource_id,
              api_version                 |-> version]

NoUtils == [resource_group_name         |-> None,
            resource_provider_namespace |-> None,
            parent_resource_path        |-> None,
            resource_type               |-> None,
            resource_name               |-> None,
            resource_id                 |-> None,
            api_version                 |-> None]

\* rcf.providers.get and the resolution that follows it, with the given
\* namespace, parent path and type; an unknown namespace is the service's error
DoResolve(ns, parent, rtype) ==
    /\ calls' = Append(calls, [op |-> "providers.get", namespace |-> ns])
    /\ IF ns \notin DOMAIN providers
       THEN /\ rerror' = [type |-> "CloudError", msg |-> "provider not found", arg |-> ns]
            /\ rpc' = "failed"
            /\ UNCHANGED <<api_version, resolve_calls, utils>>
       ELSE LET r == ResolveApiVersion(providers[ns], parent, rtype)
            IN  /\ resolve_calls' = Append(resolve_calls,
                       [namespace |-> ns, parent |-> parent, resource_type |-> rtype,
                        looked_up |-> ResourceTypeStr(parent, rtype)])
                /\ rerror' = r.error
                /\ api_version' = r.version
                /\ IF r.error = NoError
                   THEN rpc' = "ready" /\ StoreFields(r.version)
                   ELSE rpc' = "failed" /\ UNCHANGED utils

\* __init__, the call of _resolve_api_version with the explicit parts
ResolveByParts ==
    /\ rpc = "resolve"
    /\ DoResolve(resource_provider_namespace, args.parent_resource_path, resource_type)
    /\ UNCHANGED <<providers, args, resource_provider_namespace, resource_type>>
    /\ UNCHANGED <<depVars, cmdVars>>

(***************************************************************************)
(* azure.cli.core.commands.arm.parse_resource_id: the named parts of       *)
(*   /subscriptions/S[/resourceGroups/G]/providers/NS/TYPE/NAME            *)
(*       [[/providers/CNS]/CTYPE/CNAME][/GTYPE/GNAME]                      *)
(* with None for a part the id does not have.                              *)
(***************************************************************************)
SegProviders == <<"p","r","o","v","i","d","e","r","s">>

SegSubscriptions == <<"s","u","b","s","c","r","i","p","t","i","o","n","s">>

SegResourceGroups == <<"r","e","s","o","u","r","c","e","G","r","o","u","p","s">>

ParseResourceId(rid) ==
    LET segs  == Split(rid, "/")
        p     == CHOOSE i \in 1..Len(segs) :
                     segs[i] = SegProviders /\ \A j \in 1..(i - 1) : segs[j] # SegProviders
        rest  == SubSeq(segs, p + 4, Len(segs))
        own   == Len(rest) >= 4 /\ rest[1] = SegProviders
        child == IF own THEN SubSeq(rest, 3, Len(rest)) ELSE rest
        grand == SubSeq(child, 3, Len(child))
    IN  [subscription    |-> segs[3],
         resource_group  |-> IF p = 6 THEN segs[5] ELSE None,
         namespace       |-> segs[p + 1],
         type            |-> segs[p + 2],
         name            |-> segs[p + 3],
         child_namespace |-> IF own THEN rest[2] ELSE None,
         child_type      |-> IF Len(child) >= 2 THEN child[1] ELSE None,
         child_name      |-> IF Len(child) >= 2 THEN child[2] ELSE None,
         grandchild_type |-> IF Len(child) >= 2 /\ Len(grand) >= 2 THEN grand[1] ELSE None,
         grandchild_name |-> IF Len(child) >= 2 /\ Len(grand) >= 2 THEN grand[2] ELSE None]

(***************************************************************************)
(* _ResourceUtils._resolve_api_version_by_id                               *)
(***************************************************************************)
\* the child's parent taken to be the parent's name alone
ByIdArgumentsNameOnly(parts) ==
    [namespace     |-> IF parts.child_namespace # None
                       THEN parts.child_namespace ELSE parts.namespace,
     parent        |-> IF Truthy(parts.grandchild_type)
                       THEN parts.type \o <<"/">> \o parts.name \o <<"/">> \o
                            parts.child_type \o <<"/">> \o parts.child_name
                       ELSE IF Truthy(parts.child_type)
                       THEN (IF parts.child_namespace # None THEN <<>> ELSE parts.name)
                       ELSE None,
     resource_type |-> IF Truthy(parts.grandchild_type) THEN parts.grandchild_type
                       ELSE IF Truthy(parts.child_type) THEN parts.child_type
                       ELSE parts.type]

\* the namespace, parent path and type _resolve_api_version is called with
ByIdArguments(parts) ==
    [namespace     |-> IF parts.child_namespace # None
                       THEN parts.child_namespace ELSE parts.namespace,
     parent        |-> IF Truthy(parts.grandchild_type)
                       THEN parts.type \o <<"/">> \o parts.name \o <<"/">> \o
                            parts.child_type \o <<"/">> \o parts.child_name
                       ELSE IF Truthy(parts.child_type)
                       THEN (IF parts.child_namespace # None
                             THEN <<>>
                             ELSE parts.type \o <<"/">> \o parts.name)
                       ELSE None,
     resource_type |-> IF Truthy(parts.grandchild_type) THEN parts.grandchild_type
                       ELSE IF Truthy(parts.child_type) THEN parts.child_type
                       ELSE parts.type]

(***************************************************************************)
(* _validate_resource_inputs: the error raised, or NoError                 *)
(***************************************************************************)
ValidateResourceInputs(group, ns, rtype, name) ==
    IF group = None THEN CLIError("--resource-group/-g is required.")
    ELSE IF rtype = None THEN CLIError("--resource-type is required")
    ELSE IF name = None THEN CLIError("--name/-n is required")
    ELSE IF ns = None THEN CLIError("--namespace is required")
    ELSE NoError

(***************************************************************************)
(* _ResourceUtils.__init__                                                 *)
(***************************************************************************)
\* the type left as it was given
SplitResourceTypeNever(ns, parent, rtype) ==
    [namespace |-> ns, resource_type |-> rtype]

\* 'namespace/type' split into its two parts, when neither a namespace nor a
\* parent path is given
SplitResourceType(ns, parent, rtype) ==
    IF Truthy(rtype) /\ ~Truthy(ns) /\ ~Truthy(parent) /\ Len(Split(rtype, "/")) > 1
    THEN [namespace |-> Split(rtype, "/")[1], resource_type |-> Split(rtype, "/")[2]]
    ELSE [namespace |-> ns, resource_type |-> rtype]

\* the first lines of __init__: the embedded namespace is split out
SplitType ==
    /\ rpc = "new"
    /\ LET r == SplitResourceType(args.resource_provider_namespace,
                                  args.parent_resource_path, args.resource_type)
       IN  /\ resource_provider_namespace' = r.namespace
           /\ resource_type' = r.resource_type
    /\ rpc' = "dispatch"
    /\ UNCHANGED <<providers, args, api_version, resolve_calls, calls, rerror, utils>>
    /\ UNCHANGED <<depVars, cmdVars>>

\* an api_version is given: nothing is looked up or validated
UseGivenVersion ==
    /\ rpc = "dispatch"
    /\ api_version # None
    /\ StoreFields(api_version)
    /\ rpc' = "ready"
    /\ UNCHANGED <<providers, args, resource_provider_namespace, resource_type,
                   api_version, resolve_calls, calls, rerror>>
    /\ UNCHANGED <<depVars, cmdVars>>

\* no api_version, a resource id: _resolve_api_version_by_id
ResolveById ==
    /\ rpc = "dispatch"
    /\ api_version = None
    /\ Truthy(args.resource_id)
    /\ LET a == ByIdArguments(ParseResourceId(args.resource_id))
       IN  DoResolve(a.namespace, a.parent, a.resource_type)
    /\ UNCHANGED <<providers, args, resource_provider_namespace, resource_type>>
    /\ UNCHANGED <<depVars, cmdVars>>

\* no api_version, no resource id: _validate_resource_inputs
ValidateInputs ==
    /\ rpc = "dispatch"
    /\ api_version = None
    /\ ~Truthy(args.resource_id)
    /\ rerror' = ValidateResourceInputs(args.resource_group_name,
                                        resource_provider_namespace,
                                        resource_type, args.resource_name)
    /\ rpc' = IF rerror' = NoError THEN "resolve" ELSE "failed"
    /\ UNCHANGED <<providers, args, resource_provider_namespace, resource_type,
                   api_version, resolve_calls, calls, utils>>
    /\ UNCHANGED <<depVars, cmdVars>>

(***************************************************************************)
(* Template deployment.                                                    *)
(*                                                                         *)
(* A JSON object (a Python dict) is a function from its keys; the empty    *)
(* dict is <<>>.  Every other JSON value is a record of one field named    *)
(* after its kind: [num |-> 5], [bool |-> TRUE], [str |-> "int"],          *)
(* [text |-> <<"v">>] (a string as typed at a prompt), [list |-> <<...>>], *)
(* [value |-> 1] (the {"value": ...} object of a parameter file), and      *)
(* DNone for null and for Python's None.                                   *)
(*                                                                         *)
(*   dpc               the position of _deploy_arm_template_core           *)
(*   dargs             its arguments; parameter_list holds the documents   *)
(*                     as shell_safe_json_parse returns them               *)
(*   file_json         what get_file_json(template_file) returns           *)
(*   parameters, template, missing, prompt_parameters   its locals         *)
(*   pending           the names _prompt_for_parameters has yet to handle, *)
(*                     in the order its for loop takes them                *)
(*   result            the local 'result' of _prompt_for_parameters        *)
(*   prompts           the prompts shown so far, with their answers        *)
(*   submitted         the request sent to smc.deployments                 *)
(*   derror            the exception raised, if any                        *)
(***************************************************************************)
DNone == [none |-> TRUE]

\* d.get(key, None)
Get(d, key) == IF key \in DOMAIN d THEN d[key] ELSE DNone

\* d.get(key, default)
GetOr(d, key, default) == IF key \in DOMAIN d THEN d[key] ELSE default

\* dict.update with the arguments' roles exchanged: the old value is kept
UpdateKeepingOld(d, e) ==
    [k \in DOMAIN d \cup DOMAIN e |-> IF k \in DOMAIN d THEN d[k] ELSE e[k]]

\* d.update(e)
Update(d, e) ==
    [k \in DOMAIN d \cup DOMAIN e |-> IF k \in DOMAIN e THEN e[k] ELSE d[k]]

\* the keys of a dict in the order a for loop takes them
KeyOrder(d) ==
    CHOOSE order \in [1..Cardinality(DOMAIN d) -> DOMAIN d] :
        \A i, j \in 1..Cardinality(DOMAIN d) : i # j => order[i] # order[j]

\* every order a for loop may take the keys of a dict in
KeyOrders(d) ==
    {order \in [1..Cardinality(DOMAIN d) -> DOMAIN d] :
        \A i, j \in 1..Cardinality(DOMAIN d) : i # j => order[i] # order[j]}

(***************************************************************************)
(* _merge_parameters                                                       *)
(***************************************************************************)
\* a document out of its 'parameters' envelope, if it has one
Unwrap(params_object) ==
    IF params_object # <<>>
    THEN GetOr(params_object, "parameters", params_object)
    ELSE params_object

\* the loop, from 'parameters' as merged so far over the documents left
RECURSIVE MergeFrom(_, _)
MergeFrom(merged, parameter_list) ==
    IF parameter_list = <<>> THEN merged
    ELSE LET params_object == Unwrap(Head(parameter_list))
         IN  MergeFrom(IF merged = DNone THEN params_object
                       ELSE Update(merged, params_object),
                       Tail(parameter_list))

MergeParameters(parameter_list) == MergeFrom(DNone, parameter_list)

(***************************************************************************)
(* _find_missing_parameters                                                *)
(***************************************************************************)
\* a supplied value no longer excuses a parameter
StillMissingDespiteValue(parameter_name, parameter, supplied) ==
    Get(parameter, "defaultValue") = DNone

\* the parameter has no default and no value is supplied for it
StillMissing(parameter_name, parameter, supplied) ==
    /\ Get(parameter, "defaultValue") = DNone
    /\ ~(supplied # DNone /\ Get(supplied, parameter_name) # DNone)

\* the loop over the template's parameters
RECURSIVE FindMissingFrom(_, _, _, _)
FindMissingFrom(names, supplied, template_parameters, found) ==
    IF names = <<>> THEN found
    ELSE LET parameter_name == Head(names)
             parameter == template_parameters[parameter_name]
         IN  FindMissingFrom(Tail(names), supplied, template_parameters,
                 IF StillMissing(parameter_name, parameter, supplied)
                 THEN Update(found, parameter_name :> parameter)
                 ELSE found)

FindMissingParameters(supplied, tmpl) ==
    IF tmpl = DNone THEN <<>>
    ELSE IF Get(tmpl, "parameters") = DNone THEN <<>>
    ELSE FindMissingFrom(KeyOrder(tmpl["parameters"]), supplied,
                         tmpl["parameters"], <<>>)

(***************************************************************************)
(* _prompt_for_parameters                                                  *)
(***************************************************************************)
\* the prompt helper the loop body calls for a parameter
PromptKind(param) ==
    LET param_type == GetOr(param, "type", [str |-> "string"])
    IN  IF Get(param, "allowedValues") # DNone THEN "prompt_choice_list"
        ELSE IF param_type = [str |-> "securestring"] THEN "prompt_pass"
        ELSE IF param_type = [str |-> "int"] THEN "prompt_int"
        ELSE IF param_type = [str |-> "bool"] THEN "prompt_t_f"
        ELSE "prompt"

\* what each helper may answer; prompt_choice_list answers a place in the list
Answers(param) ==
    CASE PromptKind(param) = "prompt_choice_list" ->
             {[num |-> ix] : ix \in 0..(Len(param["allowedValues"].list) - 1)}
      [] PromptKind(param) = "prompt_int" -> {[num |-> 7]}
      [] PromptKind(param) = "prompt_t_f" -> {[bool |-> TRUE], [bool |-> FALSE]}
      [] OTHER -> {[text |-> <<>>], [text |-> <<"v">>]}

\* the loop left after any answer
LoopEndsAtOnce(kind, answer) == TRUE

\* the while loop is left: by the break of the choice, int and bool
\* branches, or by a non-empty answer
LoopEnds(kind, answer) ==
    IF kind \in {"prompt_choice_list", "prompt_int", "prompt_t_f"}
    THEN TRUE
    ELSE Len(answer.text) > 0

\* result after the answer: the free-text branches store nothing
Stored(res, param_name, param, answer) ==
    CASE PromptKind(param) = "prompt_choice_list" ->
             Update(res, param_name :> param["allowedValues"].list[answer.num + 1])
      [] PromptKind(param) \in {"prompt_int", "prompt_t_f"} ->
             Update(res, param_name :> answer)
      [] OTHER -> res

\* the answers collected are returned
PromptForParametersReturnsResult(res) == res

\* return {}
PromptForParametersReturn(res) == <<>>

(***************************************************************************)
(* _deploy_arm_template_core                                               *)
(***************************************************************************)
\* the check of the template arguments, the merge and the template's load
StartDeploy ==
    /\ dpc = "start"
    /\ IF Truthy(dargs.template_uri) = Truthy(dargs.template_file)
       THEN /\ derror' = CLIError("please provide either template file path or uri, but not both")
            /\ dpc' = "failed"
            /\ UNCHANGED <<parameters, template>>
       ELSE /\ parameters' = MergeParameters(dargs.parameter_list)
            /\ template' = IF Truthy(dargs.template_uri) THEN DNone ELSE file_json
            /\ dpc' = "find"
            /\ UNCHANGED derror
    /\ UNCHANGED <<dargs, file_json, missing, pending, result, prompts,
                   prompt_parameters, submitted>>
    /\ UNCHANGED <<resVars, cmdVars>>

\* missing = _find_missing_parameters(parameters, template); the prompting
\* follows when something is missing
FindMissing ==
    /\ dpc = "find"
    /\ missing' = FindMissingParameters(parameters, template)
    /\ IF missing' # <<>>
       THEN dpc' = "prompt" /\ pending' \in KeyOrders(missing')
       ELSE dpc' = "submit" /\ UNCHANGED pending
    /\ UNCHANGED <<dargs, file_json, parameters, template, result, prompts,
                   prompt_parameters, submitted, derror>>
    /\ UNCHANGED <<resVars, cmdVars>>

\* the empty answers given so far for a parameter
EmptyAnswers(param_name) ==
    Cardinality({i \in 1..Len(prompts) :
                    /\ prompts[i].name = param_name
                    /\ prompts[i].answer = [text |-> <<>>]})

\* one pass of the while loop for the parameter at hand: one prompt
PromptOnce ==
    /\ dpc = "prompt"
    /\ pending # <<>>
    /\ LET param_name == Head(pending)
           param      == missing[param_name]
       IN  \E answer \in Answers(param) :
               /\ answer = [text |-> <<>>] => EmptyAnswers(param_name) < MaxEmptyAnswers
               /\ prompts' = Append(prompts, [name |-> param_name,
                                              kind |-> PromptKind(param),
                                              answer |-> answer])
               /\ result' = Stored(result, param_name, param, answer)
               /\ pending' = IF LoopEnds(PromptKind(param), answer)
                             THEN Tail(pending) ELSE pending
    /\ UNCHANGED <<dpc, dargs, file_json, parameters, template, missing,
                   prompt_parameters, submitted, derror>>
    /\ UNCHANGED <<resVars, cmdVars>>

\* _prompt_for_parameters returns, and its answers are put into parameters
PromptReturn ==
    /\ dpc = "prompt"
    /\ pending = <<>>
    /\ prompt_parameters' = PromptForParametersReturn(result)
    /\ IF prompt_parameters' = <<>>
       THEN dpc' = "submit" /\ UNCHANGED <<parameters, derror>>
       ELSE IF parameters = DNone
       THEN /\ dpc' = "failed"
            /\ derror' = [type |-> "TypeError", msg |-> "'NoneType' object does not support item assignment", arg |-> <<>>]
            /\ UNCHANGED parameters
       ELSE /\ dpc' = "submit"
            /\ parameters' = Update(parameters, prompt_parameters')
            /\ UNCHANGED derror
    /\ UNCHANGED <<dargs, file_json, template, missing, pending, result,
                   prompts, submitted>>
    /\ UNCHANGED <<resVars, cmdVars>>

\* the deployment properties are built and sent
Submit ==
    /\ dpc = "submit"
    /\ submitted' = [op         |-> IF dargs.validate_only THEN "deployments.validate"
                                    ELSE "deployments.create_or_update",
                     template   |-> template,
                     uri        |-> dargs.template_uri,
                     parameters |-> parameters]
    /\ dpc' = "done"
    /\ UNCHANGED <<dargs, file_json, parameters, template, missing, pending,
                   result, prompts, prompt_parameters, derror>>
    /\ UNCHANGED <<resVars, cmdVars>>

(***************************************************************************)
(* The resolver on its own: a provider's declaration and the three         *)
(* arguments are drawn, and _resolve_api_version is applied.               *)
(***************************************************************************)
Stable15 == <<"1","5">>

Stable16 == <<"1","6">>

Preview16 == <<"1","6","-","p","r","e","v","i","e","w">>

Preview17 == <<"1","7","-","P","r","e","v","i","e","W">>

\* not a preview version: 'preview' is not in it
Pre14 == <<"1","4","-","p","r","e">>

Versions == {Stable15, Stable16, Preview16, Preview17, Pre14}

\* the versions of the declared types other than the drawn one
OtherVersions == <<<<"0","9">>>>

NsN == <<"N">>

NsM == <<"M">>

DeclaredTypeNames == {<<"a">>, <<"A">>, <<"b">>}

AskedTypes == {<<"a">>, <<"B">>, <<"c">>}

AskedParents == {None, <<>>, <<"b","/","x">>, <<"A","/","x","/","b","/","y">>}

\* a provider declaring the named types; the k-th carries the versions vs
Declaration(names, k, vs) ==
    [i \in 1..Len(names) |->
        [resource_type |-> names[i],
         api_versions  |-> IF i = k THEN vs ELSE OtherVersions]]

Declarations ==
    {Declaration(names, k, vs) :
        names \in SeqUpTo(DeclaredTypeNames, MaxTypes),
        k \in 1..MaxTypes,
        vs \in SeqUpTo(Versions, MaxVersions)}



(***************************************************************************)
(* _list_resources_odata_filter_builder                                    *)
(***************************************************************************)
\* sep.join(parts) for a separator of any length
RECURSIVE JoinWith(_, _)
JoinWith(parts, sep) ==
    IF parts = <<>> THEN <<>>
    ELSE IF Len(parts) = 1 THEN parts[1]
    ELSE parts[1] \o sep \o JoinWith(Tail(parts), sep)

Quote == <<"'">>

LitAnd == <<" ","a","n","d"," ">>

LitResourceGroupEq == <<"r","e","s","o","u","r","c","e","G","r","o","u","p"," ","e","q"," ">>

LitNameEq == <<"n","a","m","e"," ","e","q"," ">>

LitLocationEq == <<"l","o","c","a","t","i","o","n"," ","e","q"," ">>

LitResourceTypeEq == <<"r","e","s","o","u","r","c","e","T","y","p","e"," ","e","q"," ">>

LitStartsWithTagname == <<"s","t","a","r","t","s","w","i","t","h","(","t","a","g","n","a","m","e",","," ">>

LitTagnameEq == <<"t","a","g","n","a","m","e"," ","e","q"," ">>

LitTagvalueEq == <<"t","a","g","v","a","l","u","e"," ","e","q"," ">>

\* a tag argument: None, an empty dict, a string, or a dict of one key
NoTag == [kind |-> "None", name |-> <<>>, value |-> <<>>]

EmptyDictTag == [kind |-> "{}", name |-> <<>>, value |-> <<>>]

StrTag(s) == [kind |-> "str", name |-> s, value |-> <<>>]

DictTag(k, v) == [kind |-> "dict", name |-> k, value |-> v]

\* bool(tag): a non-empty string or a non-empty dict
TagTruthy(tag) == tag.kind = "dict" \/ (tag.kind = "str" /\ tag.name # <<>>)

\* tag_name: the first key of a dict, or the string itself
TagName(tag) == tag.name

\* tag_value: the value under that key, '' for a string
TagValue(tag) == IF tag.kind = "dict" THEN tag.value ELSE <<>>

\* every type string taken to be well formed
MatchesAlways(rtype) == TRUE

\* re.match('[^/]+/[^/]+', resource_type): characters other than '/', one at
\* least, then a '/', then a character other than '/'
MatchesNamespaceType(rtype) ==
    \E i \in 2..(Len(rtype) - 1) :
        /\ rtype[i] = "/"
        /\ \A j \in 1..(i - 1) : rtype[j] # "/"
        /\ rtype[i + 1] # "/"

\* the resourceType part: the predicate appended, if any, or the error raised
TypeFilter(ns, rtype) ==
    IF Truthy(rtype)
    THEN IF Truthy(ns)
         THEN [filters |-> <<LitResourceTypeEq \o Quote \o ns
                               \o <<"/">> \o rtype \o Quote>>,
               error |-> NoError]
         ELSE IF ~MatchesNamespaceType(rtype)
         THEN [filters |-> <<>>,
               error |-> CLIError("Malformed resource-type: --resource-type=<namespace>/<resource-type> expected.")]
         ELSE [filters |-> <<LitResourceTypeEq \o Quote \o rtype \o Quote>>,
               error |-> NoError]
    ELSE IF Truthy(ns)
    THEN [filters |-> <<>>, error |-> CLIError("--namespace also requires --resource-type")]
    ELSE [filters |-> <<>>, error |-> NoError]

\* the tag filter is rejected whatever else is given
TagWithAnyFilter(name, location) == TRUE

\* name or location: the filters a tag filter cannot be used with
TagWithOtherFilters(name, location) == Truthy(name) \/ Truthy(location)

\* every tag name matched exactly
TagPredicatesExact(tag_name, tag_value) ==
    IF tag_name # <<>>
    THEN <<LitTagnameEq \o Quote \o tag_name \o Quote>> \o
         (IF tag_value # <<>>
          THEN <<LitTagvalueEq \o Quote \o tag_value \o Quote>>
          ELSE <<>>)
    ELSE <<>>

\* the predicates of a tag filter
TagPredicates(tag_name, tag_value) ==
    IF tag_name # <<>>
    THEN IF tag_name[Len(tag_name)] = "*"
         THEN <<LitStartsWithTagname \o Quote
                  \o SubSeq(tag_name, 1, Len(tag_name) - 1) \o Quote \o <<")">> >>
         ELSE <<LitTagnameEq \o Quote \o tag_name \o Quote>> \o
              (IF tag_value # <<>>
               THEN <<LitTagvalueEq \o Quote \o tag_value \o Quote>>
               ELSE <<>>)
    ELSE <<>>

\* the filters collected and the string returned, or the error raised
ListResourcesOdataFilterBuilder(group, ns, rtype, name, tag, location) ==
    LET first == (IF Truthy(group)
                  THEN <<LitResourceGroupEq \o Quote \o group \o Quote>>
                  ELSE <<>>) \o
                 (IF Truthy(name) THEN <<LitNameEq \o Quote \o name \o Quote>> ELSE <<>>) \o
                 (IF Truthy(location)
                  THEN <<LitLocationEq \o Quote \o location \o Quote>>
                  ELSE <<>>)
        typed == TypeFilter(ns, rtype)
        all   == first \o typed.filters \o
                 (IF TagTruthy(tag)
                  THEN TagPredicates(TagName(tag), TagValue(tag))
                  ELSE <<>>)
    IN  IF typed.error # NoError
        THEN [filters |-> first, filter |-> None, error |-> typed.error]
        ELSE IF TagTruthy(tag) /\ TagWithOtherFilters(name, location)
        THEN [filters |-> first \o typed.filters, filter |-> None,
              error |-> UsageError("you cannot use the tag filter with other filters", <<>>)]
        ELSE [filters |-> all, filter |-> JoinWith(all, LitAnd), error |-> NoError]

(***************************************************************************)
(* list_resources                                                          *)
(***************************************************************************)
\* the resource group, when one is named, is fetched first
ListResourcesGetGroup ==
    /\ command = "list_resources"
    /\ cpc = "start"
    /\ remote' = IF cargs.resource_group_name # None
                 THEN Append(remote, [op |-> "resource_groups.get",
                                      resource_group_name |-> cargs.resource_group_name])
                 ELSE remote
    /\ cpc' = "filter"
    /\ UNCHANGED <<command, cargs, locals, service, returned, printed, cerror>>
    /\ UNCHANGED <<resVars, depVars>>

\* odata_filter = _list_resources_odata_filter_builder(...)
ListResourcesBuildFilter ==
    /\ command = "list_resources"
    /\ cpc = "filter"
    /\ LET r == ListResourcesOdataFilterBuilder(
                    cargs.resource_group_name, cargs.resource_provider_namespace,
                    cargs.resource_type, cargs.name, cargs.tag, cargs.location)
       IN  /\ locals' = [filters |-> r.filters, odata_filter |-> r.filter]
           /\ cerror' = r.error
           /\ cpc' = IF r.error = NoError THEN "list" ELSE "failed"
    /\ UNCHANGED <<command, cargs, service, remote, returned, printed>>
    /\ UNCHANGED <<resVars, depVars>>

\* rcf.resources.list(filter=odata_filter)
ListResourcesList ==
    /\ command = "list_resources"
    /\ cpc = "list"
    /\ remote' = Append(remote, [op |-> "resources.list", filter |-> locals.odata_filter])
    /\ returned' = service
    /\ cpc' = "done"
    /\ UNCHANGED <<command, cargs, locals, service, printed, cerror>>
    /\ UNCHANGED <<resVars, depVars>>


(***************************************************************************)
(* _validate_lock_params: the tuple returned, or the error raised          *)
(***************************************************************************)
\* the prerequisites of the resource name left unchecked
ValidateLockParamsNameAlone(resource_group_name, ns, parent, rtype, resource_name) ==
    [lock_resource |-> <<resource_group_name, resource_name, ns, rtype>>,
     error |-> NoError]

ValidateLockParams(resource_group_name, ns, parent, rtype, resource_name) ==
    LET Fail(m) == [lock_resource |-> None, error |-> CLIError(m)]
        parts   == Split(rtype, "/")
    IN  IF resource_group_name = None
        THEN IF resource_name # None
             THEN Fail("--resource-name is ignored if --resource-group is not given.")
             ELSE IF rtype # None
             THEN Fail("--resource-type is ignored if --resource-group is not given.")
             ELSE IF ns # None
             THEN Fail("--namespace is ignored if --resource-group is not given.")
             ELSE IF parent # None
             THEN Fail("--parent is ignored if --resource-group is not given.")
             ELSE [lock_resource |-> <<None, None, None, None>>, error |-> NoError]
        ELSE IF resource_name = None
        THEN IF rtype # None
             THEN Fail("--resource-type is ignored if --resource-name is not given.")
             ELSE IF ns # None
             THEN Fail("--namespace is ignored if --resource-name is not given.")
             ELSE IF parent # None
             THEN Fail("--parent is ignored if --resource-name is not given.")
             ELSE [lock_resource |-> <<resource_group_name, None, None, None>>,
                   error |-> NoError]
        ELSE IF rtype = None \/ Len(rtype) = 0
        THEN Fail("--resource-type is required if --resource-name is present")
        ELSE IF ns = None
        THEN IF Len(parts) = 1
             THEN Fail("A resource namespace is required if --resource-name is present.Expected <namespace>/<type> or --namespace=<namespace>")
             ELSE [lock_resource |-> <<resource_group_name, resource_name, parts[1], parts[2]>>,
                   error |-> NoError]
        ELSE IF Len(parts) # 1
        THEN Fail("Resource namespace specified in both --resource-type and --namespace")
        ELSE [lock_resource |-> <<resource_group_name, resource_name, ns, rtype>>,
              error |-> NoError]

(***************************************************************************)
(* create_lock, delete_lock, list_locks                                    *)
(***************************************************************************)
LevelReadOnly == <<"R","e","a","d","O","n","l","y">>

LevelCanNotDelete == <<"C","a","n","N","o","t","D","e","l","e","t","e">>

ManagementLockObject(level, notes, name) ==
    [level |-> level, notes |-> notes, name |-> name]

NoLockObject == ManagementLockObject(None, None, None)

\* x or ''
OrEmpty(x) == IF Truthy(x) THEN x ELSE <<>>

\* the first lines of create_lock: the level is checked, the lock object built
CreateLockCheckLevel ==
    /\ command = "create_lock"
    /\ cpc = "start"
    /\ IF cargs.level # LevelReadOnly /\ cargs.level # LevelCanNotDelete
       THEN /\ cerror' = CLIError("--level must be one of \"ReadOnly\" or \"CanNotDelete\"")
            /\ cpc' = "failed"
            /\ UNCHANGED locals
       ELSE /\ locals' = [parameters |-> ManagementLockObject(cargs.level, cargs.notes,
                                                               cargs.name),
                          lock_resource |-> None]
            /\ cpc' = "validate"
            /\ UNCHANGED cerror
    /\ UNCHANGED <<command, cargs, service, remote, returned, printed>>
    /\ UNCHANGED <<resVars, depVars>>

\* the lock sub-client called before the parameters are validated
ValidateLockAfterCall ==
    /\ \/ command = "create_lock" /\ cpc = "validate"
       \/ command \in {"delete_lock", "list_locks"} /\ cpc = "start"
    /\ LET r == ValidateLockParams(cargs.resource_group_name,
                                   cargs.resource_provider_namespace,
                                   cargs.parent_resource_path,
                                   cargs.resource_type, cargs.resource_name)
       IN  /\ locals' = [parameters |-> IF command = "create_lock"
                                        THEN locals.parameters ELSE NoLockObject,
                         lock_resource |-> r.lock_resource]
           /\ cerror' = r.error
           /\ cpc' = IF r.error = NoError THEN "done" ELSE "failed"
    /\ remote' = Append(remote, [op |-> "list_at_subscription_level",
                                 filter |-> cargs.filter_string])
    /\ UNCHANGED <<command, cargs, service, returned, printed>>
    /\ UNCHANGED <<resVars, depVars>>

\* lock_resource = _validate_lock_params(...)
ValidateLock ==
    /\ \/ command = "create_lock" /\ cpc = "validate"
       \/ command \in {"delete_lock", "list_locks"} /\ cpc = "start"
    /\ LET r == ValidateLockParams(cargs.resource_group_name,
                                   cargs.resource_provider_namespace,
                                   cargs.parent_resource_path,
                                   cargs.resource_type, cargs.resource_name)
       IN  /\ locals' = [parameters |-> IF command = "create_lock"
                                        THEN locals.parameters ELSE NoLockObject,
                         lock_resource |-> r.lock_resource]
           /\ cerror' = r.error
           /\ cpc' = IF r.error = NoError THEN "dispatch" ELSE "failed"
    /\ UNCHANGED <<command, cargs, service, remote, returned, printed>>
    /\ UNCHANGED <<resVars, depVars>>

\* the one remote call of a lock command, and its answer returned
LockCall(call) ==
    /\ remote' = Append(remote, call)
    /\ returned' = service
    /\ cpc' = "done"
    /\ UNCHANGED <<command, cargs, locals, service, printed, cerror>>
    /\ UNCHANGED <<resVars, depVars>>

CreateLockDispatch ==
    /\ command = "create_lock"
    /\ cpc = "dispatch"
    /\ LET g  == locals.lock_resource[1]
           n  == locals.lock_resource[2]
           ns == locals.lock_resource[3]
           t  == locals.lock_resource[4]
       IN  IF g = None
           THEN LockCall([op |-> "create_or_update_at_subscription_level",
                          lock_name |-> cargs.name,
                          parameters |-> locals.parameters])
           ELSE IF n = None
           THEN LockCall([op |-> "create_or_update_at_resource_group_level",
                          resource_group_name |-> g,
                          lock_name |-> cargs.name,
                          parameters |-> locals.parameters])
           ELSE LockCall([op |-> "create_or_update_at_resource_level",
                          resource_group_name |-> g,
                          resource_provider_namespace |-> ns,
                          parent_resource_path |-> OrEmpty(cargs.parent_resource_path),
                          resource_type |-> t,
                          resource_name |-> n,
                          lock_name |-> cargs.name,
                          parameters |-> locals.parameters])

DeleteLockDispatch ==
    /\ command = "delete_lock"
    /\ cpc = "dispatch"
    /\ LET g  == locals.lock_resource[1]
           n  == locals.lock_resource[2]
           ns == locals.lock_resource[3]
           t  == locals.lock_resource[4]
       IN  IF g = None
           THEN LockCall([op |-> "delete_at_subscription_level",
                          lock_name |-> cargs.name])
           ELSE IF n = None
           THEN LockCall([op |-> "delete_at_resource_group_level",
                          resource_group_name |-> g,
                          lock_name |-> cargs.name])
           ELSE LockCall([op |-> "delete_at_resource_level",
                          resource_group_name |-> g,
                          resource_provider_namespace |-> ns,
                          parent_resource_path |-> OrEmpty(cargs.parent_resource_path),
                          resource_type |-> t,
                          resource_name |-> n,
                          lock_name |-> cargs.name])

\* list_locks passes parent_resource_path as it was given
ListLocksDispatch ==
    /\ command = "list_locks"
    /\ cpc = "dispatch"
    /\ LET g  == locals.lock_resource[1]
           n  == locals.lock_resource[2]
           ns == locals.lock_resource[3]
           t  == locals.lock_resource[4]
       IN  IF g = None
           THEN LockCall([op |-> "list_at_subscription_level",
                          filter |-> cargs.filter_string])
           ELSE IF n = None
           THEN LockCall([op |-> "list_at_resource_group_level",
                          resource_group_name |-> g,
                          filter |-> cargs.filter_string])
           ELSE LockCall([op |-> "list_at_resource_level",
                          resource_group_name |-> g,
                          resource_provider_namespace |-> ns,
                          parent_resource_path |-> cargs.parent_resource_path,
                          resource_type |-> t,
                          resource_name |-> n,
                          filter |-> cargs.filter_string])

(***************************************************************************)
(* azure.cli.core.commands.arm.is_valid_resource_id: the id reads          *)
(*   /subscriptions/S/resourceGroups/G/providers/NS/TYPE/NAME[/T/N]...     *)
(* with a subscription and a resource group, and parses back to itself.    *)
(***************************************************************************)
IsValidResourceId(rid) ==
    /\ Truthy(rid)
    /\ LET segs == Split(rid, "/")
       IN  /\ Len(segs) >= 9
           /\ (Len(segs) - 9) % 2 = 0
           /\ segs[1] = <<>>
           /\ segs[2] = SegSubscriptions
           /\ segs[4] = SegResourceGroups
           /\ segs[6] = SegProviders

(***************************************************************************)
(* _build_policy_scope: the scope returned, or the error raised            *)
(***************************************************************************)
\* the resource group taken before the explicit scope
BuildPolicyScopeGroupFirst(subscription_id, resource_group_name, scope) ==
    LET subscription_scope == <<"/">> \o SegSubscriptions \o <<"/">> \o subscription_id
    IN  [scope |-> IF Truthy(resource_group_name)
                   THEN subscription_scope \o <<"/">> \o SegResourceGroups \o <<"/">>
                            \o resource_group_name
                   ELSE IF Truthy(scope) THEN scope ELSE subscription_scope,
         error |-> NoError]

BuildPolicyScope(subscription_id, resource_group_name, scope) ==
    LET subscription_scope == <<"/">> \o SegSubscriptions \o <<"/">> \o subscription_id
    IN  IF Truthy(scope)
        THEN IF Truthy(resource_group_name)
             THEN [scope |-> None,
                   error |-> CLIError("Resource group '{}' is redundant because 'scope' is supplied")]
             ELSE [scope |-> scope, error |-> NoError]
        ELSE IF Truthy(resource_group_name)
        THEN [scope |-> subscription_scope \o <<"/">> \o SegResourceGroups \o <<"/">>
                            \o resource_group_name,
              error |-> NoError]
        ELSE [scope |-> subscription_scope, error |-> NoError]

(***************************************************************************)
(* create_policy_assignment, delete_policy_assignment,                     *)
(* show_policy_assignment                                                  *)
(***************************************************************************)
\* scope = _build_policy_scope(policy_client.config.subscription_id, ...)
PolicyBuildScope ==
    /\ command \in {"create_policy_assignment", "delete_policy_assignment",
                    "show_policy_assignment"}
    /\ cpc = "start"
    /\ LET r == BuildPolicyScope(service.subscription_id, cargs.resource_group_name,
                                 cargs.scope)
       IN  /\ locals' = [scope |-> r.scope, policy_id |-> None]
           /\ cerror' = r.error
           /\ cpc' = IF r.error # NoError THEN "failed"
                     ELSE IF command = "create_policy_assignment" THEN "resolve"
                     ELSE "call"
    /\ UNCHANGED <<command, cargs, service, remote, returned, printed>>
    /\ UNCHANGED <<resVars, depVars>>

\* policy_id = _resolve_policy_id(policy, policy_client)
CreatePolicyResolveId ==
    /\ command = "create_policy_assignment"
    /\ cpc = "resolve"
    /\ IF IsValidResourceId(cargs.policy)
       THEN /\ locals' = [locals EXCEPT !.policy_id = cargs.policy]
            /\ UNCHANGED remote
       ELSE /\ remote' = Append(remote, [op |-> "policy_definitions.get",
                                         policy_definition_name |-> cargs.policy])
            /\ locals' = [locals EXCEPT !.policy_id = service.definition_id]
    /\ cpc' = "call"
    /\ UNCHANGED <<command, cargs, service, returned, printed, cerror>>
    /\ UNCHANGED <<resVars, depVars>>

\* policy_client.policy_assignments.create(scope, name or uuid.uuid4(), assignment)
CreatePolicyAssignment ==
    /\ command = "create_policy_assignment"
    /\ cpc = "call"
    /\ \E uuid4 \in {<<"u","1">>, <<"u","2">>} :
           remote' = Append(remote,
               [op |-> "policy_assignments.create",
                scope |-> locals.scope,
                policy_assignment_name |-> IF Truthy(cargs.name) THEN cargs.name ELSE uuid4,
                assignment |-> [display_name |-> cargs.display_name,
                                policy_definition_id |-> locals.policy_id,
                                scope |-> locals.scope]])
    /\ returned' = remote'[Len(remote')].assignment
    /\ cpc' = "done"
    /\ UNCHANGED <<command, cargs, locals, service, printed, cerror>>
    /\ UNCHANGED <<resVars, depVars>>

\* policy_client.policy_assignments.delete(scope, name)
DeletePolicyAssignment ==
    /\ command = "delete_policy_assignment"
    /\ cpc = "call"
    /\ remote' = Append(remote, [op |-> "policy_assignments.delete",
                                 scope |-> locals.scope,
                                 policy_assignment_name |-> cargs.name])
    /\ cpc' = "done"
    /\ UNCHANGED <<command, cargs, locals, service, returned, printed, cerror>>
    /\ UNCHANGED <<resVars, depVars>>

\* policy_client.policy_assignments.get(scope, name)
ShowPolicyAssignment ==
    /\ command = "show_policy_assignment"
    /\ cpc = "call"
    /\ remote' = Append(remote, [op |-> "policy_assignments.get",
                                 scope |-> locals.scope,
                                 policy_assignment_name |-> cargs.name])
    /\ returned' = [name |-> cargs.name, scope |-> locals.scope]
    /\ cpc' = "done"
    /\ UNCHANGED <<command, cargs, locals, service, printed, cerror>>
    /\ UNCHANGED <<resVars, depVars>>

(***************************************************************************)
(* list_policy_assignment                                                  *)
(***************************************************************************)
\* s.strip('/')
RECURSIVE Strip(_, _)
Strip(s, ch) ==
    IF s = <<>> THEN s
    ELSE IF s[1] = ch THEN Strip(Tail(s), ch)
    ELSE IF s[Len(s)] = ch THEN Strip(SubSeq(s, 1, Len(s) - 1), ch)
    ELSE s

\* a scope that is no resource id is taken apart: the resource group and the
\* scope to go on with, or the error raised
ListPolicyScopeParts(subscription_id, resource_group_name, scope) ==
    LET parts == Split(Strip(scope, "/"), "/")
    IN  IF Truthy(scope) /\ ~IsValidResourceId(scope)
        THEN IF Len(parts) = 4
             THEN [resource_group_name |-> parts[4], scope |-> None, error |-> NoError]
             ELSE IF Len(parts) = 2
             THEN IF Lower(parts[2]) # Lower(subscription_id)
                  THEN [resource_group_name |-> resource_group_name, scope |-> scope,
                        error |-> CLIError("Please use current active subscription's id")]
                  ELSE [resource_group_name |-> resource_group_name, scope |-> None,
                        error |-> NoError]
             ELSE [resource_group_name |-> resource_group_name, scope |-> scope,
                   error |-> CLIError("Invalid scope '{}', it should point to a resource group or a resource")]
        ELSE [resource_group_name |-> resource_group_name, scope |-> scope,
              error |-> NoError]

\* [i for i in result if _scope.lower() == i.scope.lower()]
StrictMatch(listing, scope) ==
    LET Same(i) == Lower(scope) = Lower(i.scope)
    IN  SelectSeq(listing, Same)

ListPolicyNormalizeScope ==
    /\ command = "list_policy_assignment"
    /\ cpc = "start"
    /\ LET r == ListPolicyScopeParts(service.subscription_id,
                                     cargs.resource_group_name, cargs.scope)
       IN  /\ locals' = [resource_group_name |-> r.resource_group_name,
                         scope |-> r.scope, _scope |-> None, result |-> <<>>]
           /\ cerror' = r.error
           /\ cpc' = IF r.error = NoError THEN "scope" ELSE "failed"
    /\ UNCHANGED <<command, cargs, service, remote, returned, printed>>
    /\ UNCHANGED <<resVars, depVars>>

\* _scope = _build_policy_scope(...)
ListPolicyBuildScope ==
    /\ command = "list_policy_assignment"
    /\ cpc = "scope"
    /\ LET r == BuildPolicyScope(service.subscription_id, locals.resource_group_name,
                                 locals.scope)
       IN  /\ locals' = [locals EXCEPT !._scope = r.scope]
           /\ cerror' = r.error
           /\ cpc' = IF r.error = NoError THEN "list" ELSE "failed"
    /\ UNCHANGED <<command, cargs, service, remote, returned, printed>>
    /\ UNCHANGED <<resVars, depVars>>

\* the listing for the resource group, for the resource, or for the
\* subscription
ListPolicyList ==
    /\ command = "list_policy_assignment"
    /\ cpc = "list"
    /\ remote' = Append(remote,
           IF Truthy(locals.resource_group_name)
           THEN [op |-> "policy_assignments.list_for_resource_group",
                 resource_group_name |-> locals.resource_group_name]
           ELSE IF Truthy(locals.scope)
           THEN LET id == ParseResourceId(locals.scope)
                IN  [op |-> "policy_assignments.list_for_resource",
                     resource_group_name |-> id.resource_group,
                     resource_provider_namespace |-> id.namespace,
                     parent_resource_path |-> IF ~Truthy(id.child_name) THEN <<>>
                                              ELSE id.type \o <<"/">> \o id.name,
                     resource_type |-> IF Truthy(id.child_type)
                                       THEN id.child_type ELSE id.type,
                     resource_name |-> IF Truthy(id.child_name)
                                       THEN id.child_name ELSE id.name]
           ELSE [op |-> "policy_assignments.list"])
    /\ locals' = [locals EXCEPT !.result = service.listing]
    /\ cpc' = "filter"
    /\ UNCHANGED <<command, cargs, service, returned, printed, cerror>>
    /\ UNCHANGED <<resVars, depVars>>

\* the strict match, unless disabled, and the return
ListPolicyFilter ==
    /\ command = "list_policy_assignment"
    /\ cpc = "filter"
    /\ returned' = IF ~cargs.disable_scope_strict_match
                   THEN StrictMatch(locals.result, locals._scope)
                   ELSE locals.result
    /\ cpc' = "done"
    /\ UNCHANGED <<command, cargs, locals, service, remote, printed, cerror>>
    /\ UNCHANGED <<resVars, depVars>>

(***************************************************************************)
(* export_group_as_template, export_deployment_as_template                 *)
(***************************************************************************)
\* options: the export options chosen, joined by ',', or None
ExportOptions(include_comments, include_parameter_default_value) ==
    LET export_options ==
            (IF include_comments
             THEN <<<<"I","n","c","l","u","d","e","C","o","m","m","e","n","t","s">>>>
             ELSE <<>>) \o
            (IF include_parameter_default_value
             THEN <<<<"I","n","c","l","u","d","e","P","a","r","a","m","e","t","e","r",
                      "D","e","f","a","u","l","t","V","a","l","u","e">>>>
             ELSE <<>>)
    IN  IF export_options # <<>> THEN Join(export_options, ",") ELSE None

\* the error attribute of a response: None, or an error object, whose details
\* attribute may be absent or empty and whose details may lack a message
NoExportError == [present |-> FALSE, has_details |-> FALSE, details |-> <<>>]

ExportError(has_details, details) ==
    [present |-> TRUE, has_details |-> has_details, details |-> details]

\* what CLIError is raised with: the message of the first detail, when the
\* error has details and the first has a message, else the error object
SurfacedError(error) ==
    IF error.has_details /\ error.details # <<>> /\ error.details[1].has_message
    THEN [message |-> error.details[1].message]
    ELSE [object |-> error]

\* json.dumps(template, indent=2), printed
PrintTemplate(t) == <<[json |-> t, indent |-> 2]>>

\* result = rcf.resource_groups.export_template(resource_group_name, '*', options)
ExportGroupCall ==
    /\ command = "export_group_as_template"
    /\ cpc = "start"
    /\ remote' = Append(remote,
           [op |-> "resource_groups.export_template",
            resource_group_name |-> cargs.resource_group_name,
            resources |-> <<"*">>,
            options |-> ExportOptions(cargs.include_comments,
                                      cargs.include_parameter_default_value)])
    /\ locals' = [result |-> service]
    /\ cpc' = "check"
    /\ UNCHANGED <<command, cargs, service, returned, printed, cerror>>
    /\ UNCHANGED <<resVars, depVars>>

\* the error attribute is looked at before anything is printed
ExportGroupCheck ==
    /\ command = "export_group_as_template"
    /\ cpc = "check"
    /\ IF locals.result.error.present
       THEN /\ cerror' = [type |-> "CLIError", msg |-> "",
                          arg |-> SurfacedError(locals.result.error)]
            /\ cpc' = "failed"
            /\ UNCHANGED printed
       ELSE /\ printed' = PrintTemplate(locals.result.template)
            /\ cpc' = "done"
            /\ UNCHANGED cerror
    /\ UNCHANGED <<command, cargs, locals, service, remote, returned>>
    /\ UNCHANGED <<resVars, depVars>>

\* result = smc.deployments.export_template(resource_group_name, deployment_name)
ExportDeploymentCall ==
    /\ command = "export_deployment_as_template"
    /\ cpc = "start"
    /\ remote' = Append(remote,
           [op |-> "deployments.export_template",
            resource_group_name |-> cargs.resource_group_name,
            deployment_name |-> cargs.deployment_name])
    /\ locals' = [result |-> service]
    /\ cpc' = "print"
    /\ UNCHANGED <<command, cargs, service, returned, printed, cerror>>
    /\ UNCHANGED <<resVars, depVars>>

\* the template of the response is printed, whatever else it carries
ExportDeploymentPrint ==
    /\ command = "export_deployment_as_template"
    /\ cpc = "print"
    /\ printed' = PrintTemplate(locals.result.template)
    /\ cpc' = "done"
    /\ UNCHANGED <<command, cargs, locals, service, remote, returned, cerror>>
    /\ UNCHANGED <<resVars, depVars>>

(***************************************************************************)
(* azure.cli.core.commands.arm.resource_id, called with a subscription and *)
(* a resource group: '/subscriptions/S/resourceGroups/G'                   *)
(***************************************************************************)
ResourceId(subscription, resource_group) ==
    <<"/">> \o SegSubscriptions \o <<"/">> \o subscription
        \o <<"/">> \o SegResourceGroups \o <<"/">> \o resource_group

(***************************************************************************)
(* move_resource                                                           *)
(***************************************************************************)
\* the values of a field of the parsed ids
FieldsOf(resources, field) == {resources[i][field] : i \in 1..Len(resources)}

\* the resource groups of the ids left unchecked
MoveResourceErrorSubscriptionOnly(ids) ==
    IF \E i \in 1..Len(ids) : ~IsValidResourceId(ids[i])
    THEN CLIError("Invalid id \"{}\", as it has no group or subscription field")
    ELSE LET resources == [i \in 1..Len(ids) |-> ParseResourceId(ids[i])]
         IN  IF Cardinality(FieldsOf(resources, "subscription")) > 1
             THEN CLIError("All resources should be under the same subscription")
             ELSE NoError

\* the error the checks of the ids raise, or NoError
MoveResourceError(ids) ==
    IF \E i \in 1..Len(ids) : ~IsValidResourceId(ids[i])
    THEN CLIError("Invalid id \"{}\", as it has no group or subscription field")
    ELSE LET resources == [i \in 1..Len(ids) |-> ParseResourceId(ids[i])]
         IN  IF Cardinality(FieldsOf(resources, "subscription")) > 1
             THEN CLIError("All resources should be under the same subscription")
             ELSE IF Cardinality(FieldsOf(resources, "resource_group")) > 1
             THEN CLIError("All resources should be under the same group")
             ELSE NoError

\* the ids are verified: all valid, one subscription, one resource group
MoveResourceVerify ==
    /\ command = "move_resource"
    /\ cpc = "start"
    /\ cerror' = MoveResourceError(cargs.ids)
    /\ IF cerror' = NoError
       THEN /\ locals' = [resources |-> [i \in 1..Len(cargs.ids) |->
                                             ParseResourceId(cargs.ids[i])],
                          target |-> None]
            /\ cpc' = "target"
       ELSE /\ cpc' = "failed"
            /\ UNCHANGED locals
    /\ UNCHANGED <<command, cargs, service, remote, returned, printed>>
    /\ UNCHANGED <<resVars, depVars>>

\* target = resource_id(subscription=..., resource_group=destination_group)
MoveResourceTarget ==
    /\ command = "move_resource"
    /\ cpc = "target"
    /\ locals' = [locals EXCEPT !.target =
                      ResourceId(IF Truthy(cargs.destination_subscription_id)
                                 THEN cargs.destination_subscription_id
                                 ELSE service.subscription_id,
                                 cargs.destination_group)]
    /\ cpc' = "move"
    /\ UNCHANGED <<command, cargs, service, remote, returned, printed, cerror>>
    /\ UNCHANGED <<resVars, depVars>>

\* rcf.resources.move_resources(resources[0]['resource_group'], ids, target);
\* resources[0] of no ids at all raises IndexError
MoveResourceMove ==
    /\ command = "move_resource"
    /\ cpc = "move"
    /\ IF locals.resources = <<>>
       THEN /\ cerror' = [type |-> "IndexError", msg |-> "list index out of range",
                          arg |-> <<>>]
            /\ cpc' = "failed"
            /\ UNCHANGED <<remote, returned>>
       ELSE /\ remote' = Append(remote,
                   [op |-> "resources.move_resources",
                    source_resource_group_name |-> locals.resources[1].resource_group,
                    resources |-> cargs.ids,
                    target_resource_group |-> locals.target])
            /\ returned' = service.answer
            /\ cpc' = "done"
            /\ UNCHANGED cerror
    /\ UNCHANGED <<command, cargs, locals, service, printed>>
    /\ UNCHANGED <<resVars, depVars>>

(***************************************************************************)
(* _update_lock_parameters, update_lock                                    *)
(***************************************************************************)
\* obj.attr = v: the attribute is set, or created when the object has none
\* of that name
SetAttr(obj, attr, v) ==
    [a \in DOMAIN obj \cup {attr} |-> IF a = attr THEN v ELSE obj[a]]

\* the lock object after _update_lock_parameters: the attributes whose
\* argument is not None are assigned; notes are assigned to 'nodes'
UpdateLockParameters(params, level, notes, lock_id, lock_type) ==
    LET p1 == IF level # None THEN SetAttr(params, "level", level) ELSE params
        p2 == IF notes # None THEN SetAttr(p1, "nodes", notes) ELSE p1
        p3 == IF lock_id # None THEN SetAttr(p2, "id", lock_id) ELSE p2
    IN  IF lock_type # None THEN SetAttr(p3, "type", lock_type) ELSE p3

\* params = lock_client.management_locks.get(name), or
\* get_at_resource_group_level(resource_group_name, name)
UpdateLockGet ==
    /\ command = "update_lock"
    /\ cpc = "start"
    /\ remote' = Append(remote,
           IF cargs.resource_group_name = None
           THEN [op |-> "get", lock_name |-> cargs.name]
           ELSE [op |-> "get_at_resource_group_level",
                 resource_group_name |-> cargs.resource_group_name,
                 lock_name |-> cargs.name])
    /\ locals' = [params |-> service.lock]
    /\ cpc' = "update"
    /\ UNCHANGED <<command, cargs, service, returned, printed, cerror>>
    /\ UNCHANGED <<resVars, depVars>>

\* _update_lock_parameters(params, level, notes, None, None)
UpdateLockSetParameters ==
    /\ command = "update_lock"
    /\ cpc = "update"
    /\ locals' = [params |-> UpdateLockParameters(locals.params, cargs.level,
                                                  cargs.notes, None, None)]
    /\ cpc' = "submit"
    /\ UNCHANGED <<command, cargs, service, remote, returned, printed, cerror>>
    /\ UNCHANGED <<resVars, depVars>>

\* the object is written back at the level it was fetched from
UpdateLockSubmit ==
    /\ command = "update_lock"
    /\ cpc = "submit"
    /\ remote' = Append(remote,
           IF cargs.resource_group_name = None
           THEN [op |-> "create_or_update_at_subscription_level",
                 lock_name |-> cargs.name,
                 parameters |-> locals.params]
           ELSE [op |-> "create_or_update_at_resource_group_level",
                 resource_group_name |-> cargs.resource_group_name,
                 lock_name |-> cargs.name,
                 parameters |-> locals.params])
    /\ returned' = locals.params
    /\ cpc' = "done"
    /\ UNCHANGED <<command, cargs, locals, service, printed, cerror>>
    /\ UNCHANGED <<resVars, depVars>>

(***************************************************************************)
(* _ResourceUtils.get_resource, delete, update, tag, as show_resource,     *)
(* delete_resource, update_resource and tag_resource call them on the      *)
(* object constructed                                                      *)
(***************************************************************************)
\* the parent path passed as it is stored
ResourceCallParentAsStored(method, parameters_) ==
    IF Truthy(utils.resource_id)
    THEN [op |-> method, by_id |-> TRUE,
          resource_id |-> utils.resource_id,
          api_version |-> utils.api_version,
          parameters |-> parameters_]
    ELSE [op |-> method, by_id |-> FALSE,
          resource_group_name |-> utils.resource_group_name,
          resource_provider_namespace |-> utils.resource_provider_namespace,
          parent_resource_path |-> utils.parent_resource_path,
          resource_type |-> utils.resource_type,
          resource_name |-> utils.resource_name,
          api_version |-> utils.api_version,
          parameters |-> parameters_]

\* the call of a generic-resource method: the <method>_by_id one with the
\* resource id when there is one, else the one taking the explicit parts
ResourceCall(method, parameters_) ==
    IF Truthy(utils.resource_id)
    THEN [op |-> method, by_id |-> TRUE,
          resource_id |-> utils.resource_id,
          api_version |-> utils.api_version,
          parameters |-> parameters_]
    ELSE [op |-> method, by_id |-> FALSE,
          resource_group_name |-> utils.resource_group_name,
          resource_provider_namespace |-> utils.resource_provider_namespace,
          parent_resource_path |-> OrEmpty(utils.parent_resource_path),
          resource_type |-> utils.resource_type,
          resource_name |-> utils.resource_name,
          api_version |-> utils.api_version,
          parameters |-> parameters_]

\* GenericResource(location=resource.location, tags=tags, ...)
GenericResource(resource, tags) == [resource EXCEPT !.tags = tags]

\* get_resource, for show_resource and as the first step of tag
GetResource ==
    /\ command \in {"show_resource", "tag_resource"}
    /\ rpc = "ready"
    /\ calls' = Append(calls, ResourceCall("resources.get", DNone))
    /\ IF command = "show_resource"
       THEN /\ returned' = service.resource
            /\ rpc' = "done"
            /\ UNCHANGED locals
       ELSE /\ locals' = [resource |-> service.resource]
            /\ rpc' = "tagging"
            /\ UNCHANGED returned
    /\ UNCHANGED <<providers, args, resource_provider_namespace, resource_type,
                   api_version, resolve_calls, rerror, utils>>
    /\ UNCHANGED <<command, cpc, cargs, service, remote, printed, cerror>>
    /\ UNCHANGED depVars

\* delete
DeleteResource ==
    /\ command = "delete_resource"
    /\ rpc = "ready"
    /\ calls' = Append(calls, ResourceCall("resources.delete", DNone))
    /\ rpc' = "done"
    /\ UNCHANGED <<providers, args, resource_provider_namespace, resource_type,
                   api_version, resolve_calls, rerror, utils>>
    /\ UNCHANGED <<depVars, cmdVars>>

\* update(parameters)
UpdateResource ==
    /\ command = "update_resource"
    /\ rpc = "ready"
    /\ calls' = Append(calls, ResourceCall("resources.create_or_update",
                                           cargs.parameters))
    /\ rpc' = "done"
    /\ UNCHANGED <<providers, args, resource_provider_namespace, resource_type,
                   api_version, resolve_calls, rerror, utils>>
    /\ UNCHANGED <<depVars, cmdVars>>

\* tag(tags), after its get_resource: the resource is written back with the
\* tags given
TagResource ==
    /\ command = "tag_resource"
    /\ rpc = "tagging"
    /\ calls' = Append(calls, ResourceCall("resources.create_or_update",
                                           GenericResource(locals.resource,
                                                           cargs.tags)))
    /\ rpc' = "done"
    /\ UNCHANGED <<providers, args, resource_provider_namespace, resource_type,
                   api_version, resolve_calls, rerror, utils>>
    /\ UNCHANGED <<depVars, cmdVars>>

(***************************************************************************)
(* The specifications.                                                     *)
(***************************************************************************)
vars == <<resVars, depVars, cmdVars>>

\* no deployment is under way
NoDeployment ==
    /\ dpc = "idle"
    /\ dargs = [parameter_list |-> <<>>, template_file |-> None,
                template_uri |-> None, validate_only |-> FALSE]
    /\ file_json = DNone
    /\ parameters = DNone
    /\ template = DNone
    /\ missing = <<>>
    /\ pending = <<>>
    /\ result = <<>>
    /\ prompts = <<>>
    /\ prompt_parameters = DNone
    /\ submitted = DNone
    /\ derror = NoError

\* none of the other commands is running
NoCommand ==
    /\ command = "none"
    /\ cpc = "idle"
    /\ cargs = <<>>
    /\ locals = <<>>
    /\ service = <<>>
    /\ remote = <<>>
    /\ returned = <<>>
    /\ printed = <<>>
    /\ cerror = NoError

\* no _ResourceUtils is being constructed
NoResource ==
    /\ providers = <<>>
    /\ rpc = "idle"
    /\ args = NoUtils
    /\ resource_provider_namespace = None
    /\ resource_type = None
    /\ api_version = None
    /\ resolve_calls = <<>>
    /\ calls = <<>>
    /\ rerror = NoError
    /\ utils = NoUtils

InitVersion ==
    /\ providers \in [{NsN} -> Declarations]
    /\ rpc = "resolve"
    /\ resource_provider_namespace = NsN
    /\ resource_type \in AskedTypes
    /\ \E parent \in AskedParents :
           args = [resource_group_name         |-> <<"g">>,
                   resource_provider_namespace |-> NsN,
                   parent_resource_path        |-> parent,
                   resource_type               |-> resource_type,
                   resource_name               |-> <<"n">>,
                   resource_id                 |-> None,
                   api_version                 |-> None]
    /\ api_version = None
    /\ resolve_calls = <<>>
    /\ calls = <<>>
    /\ rerror = NoError
    /\ utils = NoUtils
    /\ NoDeployment
    /\ NoCommand

NextVersion == ResolveByParts

SpecVersion == InitVersion /\ [][NextVersion]_vars

\* the declarations the commands run against
Registry ==
    (NsN :> <<[resource_type |-> <<"a">>, api_versions |-> <<Preview16, Stable15>>],
              [resource_type |-> <<"b">>, api_versions |-> <<Stable16>>]>>) @@
    (NsM :> <<[resource_type |-> <<"c">>, api_versions |-> <<Preview17>>],
              [resource_type |-> <<"d">>, api_versions |-> <<Stable15, Stable16>>]>>)

\* the id of a resource, from its segments after '/providers/'
IdOf(tail) ==
    Join(<< <<>>, SegSubscriptions, <<"s">>, SegResourceGroups, <<"g">>, SegProviders >> \o tail, "/")

\* the shapes of id the commands are given: a resource, a child, a child with
\* its own namespace, a grandchild, and a grandchild of such a child
IdTails ==
    { <<NsN, <<"a">>, <<"x">>>>,
      <<NsN, <<"A">>, <<"x">>, <<"b">>, <<"y">>>>,
      <<NsN, <<"a">>, <<"x">>, SegProviders, NsM, <<"c">>, <<"y">>>>,
      <<NsN, <<"a">>, <<"x">>, <<"b">>, <<"y">>, <<"c">>, <<"z">>>>,
      <<NsN, <<"a">>, <<"x">>, SegProviders, NsM, <<"c">>, <<"y">>, <<"d">>, <<"z">>>> }

ResourceIds == {IdOf(tail) : tail \in IdTails}

GivenTypes == {None, <<"b">>, <<"N","/","b">>, <<"N","/","a","/","z">>}

GivenParents == {None, <<>>, <<"a","/","x">>}

InitResource ==
    /\ providers = Registry
    /\ rpc = "new"
    /\ args \in [resource_group_name         : {None, <<"g">>},
                 resource_provider_namespace : {None, NsN},
                 parent_resource_path        : GivenParents,
                 resource_type               : GivenTypes,
                 resource_name               : {None, <<"n">>},
                 resource_id                 : {None} \cup ResourceIds,
                 api_version                 : {None, Stable15}]
    /\ resource_provider_namespace = args.resource_provider_namespace
    /\ resource_type = args.resource_type
    /\ api_version = args.api_version
    /\ resolve_calls = <<>>
    /\ calls = <<>>
    /\ rerror = NoError
    /\ utils = NoUtils
    /\ NoDeployment
    /\ NoCommand

NextResource ==
    \/ SplitType
    \/ UseGivenVersion
    \/ ResolveById
    \/ ValidateInputs
    \/ ResolveByParts

SpecResource == InitResource /\ [][NextResource]_vars

\* the resource the service holds
StoredResource ==
    [location |-> <<"l">>, tags |-> <<"old">>, plan |-> None, properties |-> <<"q">>,
     kind |-> None, managed_by |-> None, sku |-> None, identity |-> None]

\* show_resource, delete_resource, update_resource or tag_resource is called
InitGeneric ==
    /\ providers = Registry
    /\ rpc = "new"
    /\ args \in [resource_group_name         : {None, <<"g">>},
                 resource_provider_namespace : {None, NsN},
                 parent_resource_path        : GivenParents,
                 resource_type               : GivenTypes,
                 resource_name               : {None, <<"n">>},
                 resource_id                 : {None, <<>>,
                                                IdOf(<<NsN, <<"a">>, <<"x">>>>),
                                                IdOf(<<NsN, <<"A">>, <<"x">>, <<"b">>, <<"y">>>>)},
                 api_version                 : {None, Stable15, Preview17}]
    /\ resource_provider_namespace = args.resource_provider_namespace
    /\ resource_type = args.resource_type
    /\ api_version = args.api_version
    /\ resolve_calls = <<>>
    /\ calls = <<>>
    /\ rerror = NoError
    /\ utils = NoUtils
    /\ NoDeployment
    /\ command \in {"show_resource", "delete_resource", "update_resource",
                    "tag_resource"}
    /\ cpc = "idle"
    /\ cargs = [parameters |-> [properties |-> <<"r">>], tags |-> <<"new">>]
    /\ locals = <<>>
    /\ service = [resource |-> StoredResource]
    /\ remote = <<>>
    /\ returned = <<>>
    /\ printed = <<>>
    /\ cerror = NoError

NextGeneric ==
    \/ SplitType
    \/ UseGivenVersion
    \/ ResolveById
    \/ ValidateInputs
    \/ ResolveByParts
    \/ GetResource
    \/ DeleteResource
    \/ UpdateResource
    \/ TagResource

SpecGeneric == InitGeneric /\ [][NextGeneric]_vars

\* the values of a parameter in a parameter file
Value1 == [value |-> 1]

Value2 == [value |-> 2]

\* the documents of the merge on its own: p and q, each absent, null or set,
\* bare or in a 'parameters' envelope beside other keys
FlatDocuments ==
    {Update(dp, dq) :
        dp \in {<<>>, "p" :> Value1, "p" :> Value2, "p" :> DNone},
        dq \in {<<>>, "q" :> Value1}}

Envelope(d) == ("contentVersion" :> [str |-> "1.0"]) @@ ("parameters" :> d)

Documents == FlatDocuments \cup {Envelope(d) : d \in FlatDocuments}

\* the documents of the deployments
FewDocuments ==
    {"p" :> Value1, Envelope(("p" :> Value2) @@ ("q" :> Value1)), "p" :> DNone}

\* the declarations of a template parameter
TypeOnly(t) == "type" :> [str |-> t]

Choice == [list |-> <<[str |-> "small"], [str |-> "large"]>>]

Entries ==
    { <<>>, TypeOnly("string"), TypeOnly("securestring"), TypeOnly("int"),
      TypeOnly("bool"), TypeOnly("object"),
      TypeOnly("string") @@ ("allowedValues" :> Choice),
      TypeOnly("int") @@ ("defaultValue" :> [num |-> 5]),
      TypeOnly("string") @@ ("defaultValue" :> DNone) }

FewEntries ==
    { TypeOnly("string"), TypeOnly("securestring") @@ ("allowedValues" :> Choice),
      TypeOnly("bool") @@ ("defaultValue" :> [bool |-> FALSE]) }

\* the template files: without 'parameters', with it null, and with p and q
\* declared or not
Templates ==
    { "resources" :> [list |-> <<>>], "parameters" :> DNone } \cup
    { "parameters" :> Update(tp, tq) :
        tp \in {<<>>} \cup {"p" :> e : e \in Entries},
        tq \in {<<>>} \cup {"q" :> e : e \in FewEntries} }

DeployStart(docs, files) ==
    /\ dpc = "start"
    /\ dargs \in [parameter_list : SeqUpTo(docs, MaxDocs),
                  template_file  : {None, <<"t">>},
                  template_uri   : {None, <<"u">>},
                  validate_only  : BOOLEAN]
    /\ file_json \in files
    /\ parameters = DNone
    /\ template = DNone
    /\ missing = <<>>
    /\ pending = <<>>
    /\ result = <<>>
    /\ prompts = <<>>
    /\ prompt_parameters = DNone
    /\ submitted = DNone
    /\ derror = NoError
    /\ NoResource
    /\ NoCommand

\* the merge on its own: a template that needs no prompting
InitMerge == DeployStart(Documents, {"resources" :> [list |-> <<>>]})

NextMerge ==
    \/ StartDeploy
    \/ FindMissing
    \/ Submit

SpecMerge == InitMerge /\ [][NextMerge]_vars

InitDeploy == DeployStart(FewDocuments, Templates)

NextDeploy ==
    \/ StartDeploy
    \/ FindMissing
    \/ PromptOnce
    \/ PromptReturn
    \/ Submit

SpecDeploy == InitDeploy /\ [][NextDeploy]_vars

\* the tag arguments list_resources is given
TagNames == {<<>>, <<"t">>, <<"t","*">>, <<"*">>, <<"t","*","u">>}

TagValues == {<<>>, <<"v">>}

Tags ==
    {NoTag, EmptyDictTag} \cup {StrTag(n) : n \in TagNames}
            \cup {DictTag(n, v) : n \in TagNames, v \in TagValues}

\* the resource types list_resources is given
FilterTypes ==
    {None, <<>>, <<"b">>, <<"N","/","b">>, <<"/","b">>, <<"N","/">>,
     <<"N","/","/","b">>, <<"N","/","b","/","c">>}

\* no other command, no deployment, no _ResourceUtils
CommandStart(name) ==
    /\ command = name
    /\ cpc = "start"
    /\ locals = <<>>
    /\ remote = <<>>
    /\ returned = <<>>
    /\ printed = <<>>
    /\ cerror = NoError
    /\ NoResource
    /\ NoDeployment

InitFilter ==
    /\ CommandStart("list_resources")
    /\ cargs \in [resource_group_name         : {None, <<>>, <<"g">>},
                  resource_provider_namespace : {None, <<>>, NsN},
                  resource_type               : FilterTypes,
                  name                        : {None, <<>>, <<"n">>},
                  tag                         : Tags,
                  location                    : {None, <<"l">>}]
    /\ service = <<>>

NextFilter ==
    \/ ListResourcesGetGroup
    \/ ListResourcesBuildFilter
    \/ ListResourcesList

SpecFilter == InitFilter /\ [][NextFilter]_vars

\* the resource types the lock commands are given
LockTypes == {None, <<>>, <<"b">>, <<"N","/","b">>, <<"N","/","a","/","b">>}

\* the arguments the three lock commands share
LockTargets ==
    [resource_group_name         : {None, <<>>, <<"g">>},
     resource_provider_namespace : {None, NsN},
     parent_resource_path        : {None, <<>>, <<"a","/","x">>},
     resource_type               : LockTypes,
     resource_name               : {None, <<"n">>}]

\* the arguments of its own a lock command is given
LockOwnArguments(name) ==
    IF name = "create_lock"
    THEN [name : {<<"k">>},
          level : {None, LevelReadOnly, LevelCanNotDelete, Lower(LevelReadOnly)},
          notes : {None, <<"o">>},
          filter_string : {None}]
    ELSE IF name = "delete_lock"
    THEN [name : {<<"k">>}, level : {None}, notes : {None}, filter_string : {None}]
    ELSE [name : {None}, level : {None}, notes : {None}, filter_string : {None, <<"f">>}]

InitLock ==
    /\ \E name \in {"create_lock", "delete_lock", "list_locks"} :
           /\ CommandStart(name)
           /\ \E target \in LockTargets, own \in LockOwnArguments(name) :
                  cargs = target @@ own
    /\ service = <<>>

NextLock ==
    \/ CreateLockCheckLevel
    \/ ValidateLock
    \/ CreateLockDispatch
    \/ DeleteLockDispatch
    \/ ListLocksDispatch

SpecLock == InitLock /\ [][NextLock]_vars

\* the locks the service holds when update_lock fetches one
FetchedLocks ==
    [level : {LevelReadOnly, LevelCanNotDelete},
     notes : {None, <<"p">>},
     name  : {<<"k">>},
     id    : {<<"i">>},
     type  : {<<"y">>}]

InitUpdateLock ==
    /\ CommandStart("update_lock")
    /\ cargs \in [name : {<<"k">>},
                  resource_group_name : {None, <<>>, <<"g">>},
                  level : {None, LevelReadOnly, LevelCanNotDelete},
                  notes : {None, <<>>, <<"o">>}]
    /\ service \in [lock : FetchedLocks]

NextUpdateLock ==
    \/ UpdateLockGet
    \/ UpdateLockSetParameters
    \/ UpdateLockSubmit

SpecUpdateLock == InitUpdateLock /\ [][NextUpdateLock]_vars

\* the subscription the policy client is configured with, and another one
CurrentSubscription == <<"s">>

OtherSubscription == <<"o">>

SubscriptionScope(id) == Join(<< <<>>, SegSubscriptions, id >>, "/")

GroupScope(id, group) ==
    Join(<< <<>>, SegSubscriptions, id, SegResourceGroups, group >>, "/")

\* the id of a resource of group g of the current subscription
ResourceScope == IdOf(<<NsN, <<"a">>, <<"x">>>>)

\* the scopes of the assignments the service lists
AssignmentScopes ==
    {SubscriptionScope(CurrentSubscription),
     GroupScope(CurrentSubscription, <<"g">>),
     GroupScope(CurrentSubscription, <<"G">>),
     ResourceScope}

\* what a listing call answers: at most MaxAssignments assignments
Listings == SeqUpTo([name : {<<"k">>}, scope : AssignmentScopes], MaxAssignments)

\* the scope arguments the policy commands are given
PolicyScopes ==
    {None, <<>>, GroupScope(CurrentSubscription, <<"g">>), ResourceScope}

ListScopes ==
    PolicyScopes \cup
    {GroupScope(<<"S">>, <<"g">>),
     GroupScope(OtherSubscription, <<"g">>),
     SubscriptionScope(CurrentSubscription),
     SubscriptionScope(<<"S">>),
     SubscriptionScope(OtherSubscription),
     SubscriptionScope(CurrentSubscription) \o <<"/">> \o SegResourceGroups}

PolicyArguments(name) ==
    IF name = "create_policy_assignment"
    THEN [policy : {<<"p">>, IdOf(<<NsN, <<"b">>, <<"y">>>>)},
          name : {None, <<"k">>},
          display_name : {None, <<"d">>},
          resource_group_name : {None, <<>>, <<"g">>},
          scope : PolicyScopes]
    ELSE IF name = "list_policy_assignment"
    THEN [disable_scope_strict_match : BOOLEAN,
          resource_group_name : {None, <<"g">>, <<"h">>},
          scope : ListScopes]
    ELSE [name : {<<"k">>},
          resource_group_name : {None, <<>>, <<"g">>},
          scope : PolicyScopes]

InitPolicy ==
    \E name \in {"create_policy_assignment", "delete_policy_assignment",
                 "show_policy_assignment", "list_policy_assignment"} :
        /\ CommandStart(name)
        /\ cargs \in PolicyArguments(name)
        /\ service \in [subscription_id : {CurrentSubscription},
                        definition_id : {<<"d">>},
                        listing : IF name = "list_policy_assignment"
                                  THEN Listings ELSE {<<>>}]

NextPolicy ==
    \/ PolicyBuildScope
    \/ CreatePolicyResolveId
    \/ CreatePolicyAssignment
    \/ DeletePolicyAssignment
    \/ ShowPolicyAssignment
    \/ ListPolicyNormalizeScope
    \/ ListPolicyBuildScope
    \/ ListPolicyList
    \/ ListPolicyFilter

SpecPolicy == InitPolicy /\ [][NextPolicy]_vars

\* the details an error object carries
ErrorDetails ==
    {[has_message |-> TRUE, message |-> <<"m","1">>],
     [has_message |-> TRUE, message |-> <<"m","2">>],
     [has_message |-> FALSE, message |-> None]}

\* the error attribute of an export response
ExportErrors ==
    {NoExportError, ExportError(FALSE, <<>>)}
        \cup {ExportError(TRUE, d) : d \in SeqUpTo(ErrorDetails, MaxDetails)}

\* the responses of the export calls, returned with status 200
ExportResponses == [template : {None, <<"t">>}, error : ExportErrors]

ExportArguments(name) ==
    IF name = "export_group_as_template"
    THEN [resource_group_name : {<<"g">>},
          include_comments : BOOLEAN,
          include_parameter_default_value : BOOLEAN]
    ELSE [resource_group_name : {<<"g">>}, deployment_name : {<<"d">>}]

InitExport ==
    \E name \in {"export_group_as_template", "export_deployment_as_template"} :
        /\ CommandStart(name)
        /\ cargs \in ExportArguments(name)
        /\ service \in ExportResponses

NextExport ==
    \/ ExportGroupCall
    \/ ExportGroupCheck
    \/ ExportDeploymentCall
    \/ ExportDeploymentPrint

SpecExport == InitExport /\ [][NextExport]_vars

\* the ids move_resource is given: resources of two groups and of two
\* subscriptions, a resource group's id and an id without a resource group
MoveIds ==
    {ResourceId(<<"s">>, <<"g">>) \o <<"/">> \o SegProviders \o <<"/","N","/","a","/","x">>,
     ResourceId(<<"s">>, <<"g">>) \o <<"/">> \o SegProviders \o <<"/","N","/","b","/","y">>,
     ResourceId(<<"s">>, <<"h">>) \o <<"/">> \o SegProviders \o <<"/","N","/","a","/","x">>,
     ResourceId(<<"o">>, <<"g">>) \o <<"/">> \o SegProviders \o <<"/","N","/","a","/","x">>,
     ResourceId(<<"s">>, <<"g">>),
     SubscriptionScope(<<"s">>) \o <<"/">> \o SegProviders \o <<"/","N","/","a","/","x">>}

InitMove ==
    /\ CommandStart("move_resource")
    /\ cargs \in [ids : SeqUpTo(MoveIds, MaxIds),
                  destination_group : {<<"t">>},
                  destination_subscription_id : {None, <<>>, OtherSubscription}]
    /\ service = [subscription_id |-> CurrentSubscription, answer |-> <<>>]

NextMove ==
    \/ MoveResourceVerify
    \/ MoveResourceTarget
    \/ MoveResourceMove

SpecMove == InitMove /\ [][NextMove]_vars


(***************************************************************************)
(* Properties of _resolve_api_version, checked under SpecVersion.          *)
(***************************************************************************)
\* the resolver has returned or raised
Resolved == rpc \in {"ready", "failed"} /\ Len(resolve_calls) = 1

\* the provider's declaration the resolver read
DeclaredTypes == providers[resolve_calls[1].namespace]

\* s and t are the same string up to the case of their letters
SameIgnoringCase(s, t) ==
    /\ Len(s) = Len(t)
    /\ \A i \in 1..Len(s) : LowerChar(s[i]) = LowerChar(t[i])

\* the places of the declaration whose type name is s, case ignored
PlacesOf(s) ==
    {i \in 1..Len(DeclaredTypes) : SameIgnoringCase(DeclaredTypes[i].resource_type, s)}

\* 'preview' occurs in v, in any case
IsPreviewVersion(v) ==
    \E i \in 1..Len(v) :
        /\ i + 6 <= Len(v)
        /\ \A j \in 0..6 : LowerChar(v[i + j]) = Preview[j + 1]

\* the text of a path before its first '/'
FirstSegment(path) ==
    LET n == IF \E i \in 1..Len(path) : path[i] = "/"
             THEN (CHOOSE i \in 1..Len(path) :
                      path[i] = "/" /\ \A j \in 1..(i - 1) : path[j] # "/") - 1
             ELSE Len(path)
    IN  SubSeq(path, 1, n)

\* the type the resolver matches: the first segment of a non-empty parent
\* path, and the given resource type when there is none
MatchedType ==
    IF resolve_calls[1].parent \notin {None, <<>>}
    THEN FirstSegment(resolve_calls[1].parent)
    ELSE resolve_calls[1].resource_type

\* C1: when exactly one declared type matches the type looked up and it has
\* API versions, the version returned is the first one, in the declared
\* order, that is not a preview version, and the first one of all when every
\* one is a preview version.
C1_FirstNonPreview ==
    Resolved =>
        \A i \in PlacesOf(MatchedType) :
            LET vs == DeclaredTypes[i].api_versions
                stable == {j \in 1..Len(vs) : ~IsPreviewVersion(vs[j])}
            IN  (PlacesOf(MatchedType) = {i} /\ vs # <<>>) =>
                    /\ rpc = "ready"
                    /\ stable # {} =>
                          api_version = vs[CHOOSE j \in stable : \A k \in stable : j <= k]
                    /\ stable = {} => api_version = vs[1]

\* a preview version precedes the stable one that is returned
C1_Witness ==
    /\ Resolved
    /\ rpc = "ready"
    /\ \E i \in PlacesOf(MatchedType) :
           LET vs == DeclaredTypes[i].api_versions
           IN  /\ Len(vs) = 2
               /\ IsPreviewVersion(vs[1])
               /\ ~IsPreviewVersion(vs[2])
               /\ api_version = vs[2]

\* C2: the resolver raises a usage error and returns no version when no
\* declared type matches, when several match, and when the one that matches
\* has no API versions; it returns a version only when exactly one type
\* matches and that type has a version.
C2_UsageErrors ==
    Resolved =>
        LET places == PlacesOf(MatchedType)
            usable == /\ Cardinality(places) = 1
                      /\ \A i \in places : DeclaredTypes[i].api_versions # <<>>
        IN  /\ ~usable => /\ rpc = "failed"
                          /\ rerror.type = "IncorrectUsageError"
                          /\ api_version = None
            /\ usable => /\ rpc = "ready"
                         /\ rerror = NoError
                         /\ api_version # None

\* two declared types match and the resolver has raised
C2_Witness ==
    /\ Resolved
    /\ Cardinality(PlacesOf(MatchedType)) = 2
    /\ rpc = "failed"
    /\ rerror.type = "IncorrectUsageError"

\* C3 as stated: the given resource type is matched, case ignored, against
\* the declared types, and the version returned is one declared for it.
C3_GivenTypeIsMatched ==
    (Resolved /\ rpc = "ready") =>
        \E i \in PlacesOf(resolve_calls[1].resource_type) :
            \E j \in 1..Len(DeclaredTypes[i].api_versions) :
                api_version = DeclaredTypes[i].api_versions[j]

\* C3, amended: the resolver matches, case ignored, the first segment of the
\* parent path when a non-empty one is given, and the given resource type
\* otherwise; the version returned is one declared for the type so matched,
\* and 'not found' is raised only when no declared type matches.
C3_MatchedTypeDeclaresVersion ==
    Resolved =>
        /\ rpc = "ready" =>
              \E i \in PlacesOf(MatchedType) :
                  \E j \in 1..Len(DeclaredTypes[i].api_versions) :
                      api_version = DeclaredTypes[i].api_versions[j]
        /\ rerror.msg = "Resource type {} not found." <=> PlacesOf(MatchedType) = {}

\* a type asked for in another case than declared is resolved under a parent
C3_Witness ==
    /\ Resolved
    /\ rpc = "ready"
    /\ resolve_calls[1].parent \notin {None, <<>>}
    /\ \E i \in PlacesOf(MatchedType) : DeclaredTypes[i].resource_type # MatchedType
    /\ PlacesOf(resolve_calls[1].resource_type) = {}


(***************************************************************************)
(* Properties of _ResourceUtils.__init__ and _resolve_api_version_by_id,   *)
(* checked under SpecResource.                                             *)
(***************************************************************************)
\* __init__ has called _resolve_api_version_by_id, which has called the resolver
ResolvedById ==
    /\ args.api_version = None
    /\ Truthy(args.resource_id)
    /\ Len(resolve_calls) = 1

\* the segments p[1], p[2], ... joined by '/'
Path(p) == Join(p, "/")

\* the child segment of the id with this tail carries its own namespace
ChildHasNamespace(tail) == Len(tail) >= 7 /\ tail[4] = SegProviders

C5_ChildWithNamespaceIsIndependent ==
    ResolvedById =>
        \A tail \in IdTails :
            (args.resource_id = IdOf(tail) /\ ChildHasNamespace(tail)) =>
                /\ resolve_calls[1].parent = <<>>
                /\ resolve_calls[1].namespace = tail[5]
                /\ calls[1] = [op |-> "providers.get", namespace |-> tail[5]]
                /\ resolve_calls[1].looked_up = tail[6]
                /\ resolve_calls[1].looked_up # tail[2]

\* Python's s[i:] and s[:i] around the first '/'
HasSlash(s) == s # None /\ \E i \in 1..Len(s) : s[i] = "/"

AfterFirstSlash(s) == SubSeq(s, Len(FirstSegment(s)) + 2, Len(s))

Content(document) ==
    IF "parameters" \in DOMAIN document THEN document["parameters"] ELSE document

\* the merge has run
Merged == dpc \in {"find", "submit", "done"}

\* C7: the documents are applied in the order of the list, each out of its
\* envelope: every name some document holds is in the merged parameters with
\* the value of the last document of the list that holds it, and no other
\* name is; without documents there are no parameters.
C7_LastDocumentWins ==
    Merged =>
        LET list == dargs.parameter_list
            names == UNION {DOMAIN Content(list[i]) : i \in 1..Len(list)}
        IN  IF list = <<>> THEN parameters = DNone
            ELSE /\ DOMAIN parameters = names
                 /\ \A n \in names :
                        LET holders == {i \in 1..Len(list) : n \in DOMAIN Content(list[i])}
                            last == CHOOSE i \in holders : \A j \in holders : j <= i
                        IN  parameters[n] = Content(list[last])[n]

\* p is set by a bare document and then, differently, by one in an envelope;
\* the second value is submitted
C7_Witness ==
    /\ dpc = "done"
    /\ Len(dargs.parameter_list) = 2
    /\ dargs.parameter_list[1] = ("p" :> Value1) @@ ("q" :> Value1)
    /\ dargs.parameter_list[2] = Envelope("p" :> Value2)
    /\ submitted.parameters = ("p" :> Value2) @@ ("q" :> Value1)

(***************************************************************************)
(* Properties of the deployment, checked under SpecDeploy.                 *)
(***************************************************************************)
\* _find_missing_parameters has run
MissingFound == dpc \in {"prompt", "submit", "done"}

\* the parameters the template declares
Declared ==
    IF template = DNone THEN <<>>
    ELSE IF "parameters" \notin DOMAIN template THEN <<>>
    ELSE IF template["parameters"] = DNone THEN <<>>
    ELSE template["parameters"]

\* the declaration gives no default (a null default is none)
HasNoDefault(entry) ==
    "defaultValue" \notin DOMAIN entry \/ entry["defaultValue"] = DNone

\* no value is supplied for the name (a null value is none)
HasNoValue(name) ==
    \/ parameters = DNone
    \/ name \notin DOMAIN parameters
    \/ parameters[name] = DNone

\* C8: the missing parameters are exactly the declared ones that have
\* neither a default nor a supplied value, each with its declaration; there
\* are none without a template or without declared parameters.
C8_MissingIsExactlyUnsupplied ==
    MissingFound =>
        /\ DOMAIN missing =
               {n \in DOMAIN Declared : HasNoDefault(Declared[n]) /\ HasNoValue(n)}
        /\ \A n \in DOMAIN missing : missing[n] = Declared[n]

\* of two declared parameters, the one with a supplied value is not missing,
\* the one with a null value is
C8_Witness ==
    /\ MissingFound
    /\ DOMAIN Declared = {"p", "q"}
    /\ HasNoDefault(Declared["p"]) /\ HasNoDefault(Declared["q"])
    /\ parameters # DNone
    /\ DOMAIN parameters = {"p", "q"}
    /\ parameters["p"] = DNone
    /\ DOMAIN missing = {"p"}

\* the declared type of a parameter, 'string' when none is declared
DeclaredType(entry) ==
    IF "type" \in DOMAIN entry THEN entry["type"].str ELSE "string"

HasAllowedValues(entry) ==
    "allowedValues" \in DOMAIN entry /\ entry["allowedValues"] # DNone

\* the parameter is prompted once: it has allowed values, or is an int or a bool
PromptedOnce(entry) ==
    HasAllowedValues(entry) \/ DeclaredType(entry) \in {"int", "bool"}

\* the prompts shown for a parameter, in order
PromptsFor(name) ==
    LET Mine(q) == q.name = name
    IN  SelectSeq(prompts, Mine)

\* the for loop is past the parameter
Handled(name) == \A i \in 1..Len(pending) : pending[i] # name

\* C9: a parameter with allowed values, or an int or a bool, is prompted
\* exactly once and its first answer is kept; a free-text parameter is
\* prompted again while its answer is empty and no more after its first
\* non-empty answer; the prompts of one parameter are not mixed with those
\* of another, and a parameter whose turn has not come has not been prompted.
C9_PromptsByType ==
    MissingFound =>
        /\ \A n \in DOMAIN missing :
               LET ps == PromptsFor(n)
                   entry == missing[n]
               IN  IF PromptedOnce(entry)
                   THEN /\ Len(ps) <= 1
                        /\ Handled(n) <=> Len(ps) = 1
                        /\ Len(ps) = 1 =>
                              /\ n \in DOMAIN result
                              /\ result[n] =
                                    IF HasAllowedValues(entry)
                                    THEN entry["allowedValues"].list[ps[1].answer.num + 1]
                                    ELSE ps[1].answer
                   ELSE /\ \A i \in 1..(Len(ps) - 1) : ps[i].answer.text = <<>>
                        /\ Handled(n) <=> (Len(ps) >= 1 /\ ps[Len(ps)].answer.text # <<>>)
        /\ \A i, j, k \in 1..Len(prompts) :
               (i < j /\ j < k /\ prompts[i].name = prompts[k].name) =>
                   prompts[j].name = prompts[i].name
        /\ \A i \in 2..Len(pending) : PromptsFor(pending[i]) = <<>>

\* an empty answer, then a non-empty one for the same free-text parameter,
\* then the prompt of the next parameter
C9_Witness ==
    /\ Len(prompts) = 3
    /\ prompts[1].kind = "prompt_pass"
    /\ prompts[1].answer = [text |-> <<>>]
    /\ prompts[2].name = prompts[1].name
    /\ prompts[2].answer = [text |-> <<"v">>]
    /\ prompts[3].name # prompts[1].name
    /\ prompts[3].kind = "prompt_choice_list"

\* C10: _prompt_for_parameters returns an empty mapping whatever was
\* answered, so the parameters submitted are the merged documents and hold
\* none of the answers.
C10_AnswersAreNotSubmitted ==
    /\ (dpc \in {"submit", "done"} /\ prompts # <<>>) => prompt_parameters = <<>>
    /\ dpc # "failed" \/ derror.type = "CLIError"
    /\ dpc = "done" =>
           /\ submitted.parameters = MergeParameters(dargs.parameter_list)
           /\ \A n \in DOMAIN result :
                  \/ submitted.parameters = DNone
                  \/ n \notin DOMAIN submitted.parameters
                  \/ submitted.parameters[n] # result[n]

\* answers were collected for p and q and the request holds neither
C10_Witness ==
    /\ dpc = "done"
    /\ DOMAIN result = {"p", "q"}
    /\ submitted.parameters = ("p" :> DNone)
    /\ submitted.op = "deployments.create_or_update"

(***************************************************************************)
(* Claims about _list_resources_odata_filter_builder, read off             *)
(* list_resources once the builder has run.                                *)
(***************************************************************************)
\* the builder has run, and has returned a filter
FilterBuilt == command = "list_resources" /\ cpc \in {"list", "done", "failed"}

FilterReturned == command = "list_resources" /\ cpc \in {"list", "done"}

StartsWith(s, prefix) ==
    Len(s) >= Len(prefix) /\ SubSeq(s, 1, Len(prefix)) = prefix

\* the tag predicates among the filters, in order
TagFilters ==
    LET IsTagFilter(f) == \/ StartsWith(f, LitStartsWithTagname)
                          \/ StartsWith(f, LitTagnameEq)
                          \/ StartsWith(f, LitTagvalueEq)
    IN  SelectSeq(locals.filters, IsTagFilter)

EndsInStar(n) == n # <<>> /\ n[Len(n)] = "*"

PrefixMatch(n) ==
    LitStartsWithTagname \o Quote \o SubSeq(n, 1, Len(n) - 1) \o Quote \o <<")">>

ExactMatch(n, v) ==
    <<LitTagnameEq \o Quote \o n \o Quote>> \o
    (IF v # <<>> THEN <<LitTagvalueEq \o Quote \o v \o Quote>> ELSE <<>>)

\* C11 as stated: a tag name ending in '*' gives the prefix match alone, and
\* every other tag name gives the exact tagname match, followed by the
\* tagvalue match when a non-empty value is given.
C11_TagNameWithoutStarIsExact ==
    (FilterReturned /\ TagTruthy(cargs.tag)) =>
        IF EndsInStar(cargs.tag.name)
        THEN TagFilters = <<PrefixMatch(cargs.tag.name)>>
        ELSE TagFilters = ExactMatch(cargs.tag.name, TagValue(cargs.tag))

\* C11, amended: a tag name ending in '*' gives the prefix match on the name
\* without its '*' and no tagname or tagvalue equality; a non-empty tag name
\* not ending in '*' gives the exact tagname match, followed by the tagvalue
\* match only when a non-empty value is given; an empty tag name gives no
\* tag predicate at all.
C11_TagPredicates ==
    (FilterReturned /\ TagTruthy(cargs.tag)) =>
        IF cargs.tag.name = <<>>
        THEN TagFilters = <<>>
        ELSE IF EndsInStar(cargs.tag.name)
        THEN TagFilters = <<PrefixMatch(cargs.tag.name)>>
        ELSE TagFilters = ExactMatch(cargs.tag.name, TagValue(cargs.tag))

\* C11: a filter was built for the tag {'t*': 'v'}
C11_Witness ==
    /\ FilterReturned
    /\ cargs.tag = DictTag(<<"t","*">>, <<"v">>)
    /\ TagFilters = <<PrefixMatch(<<"t","*">>)>>

\* a type string of the form 'namespace/type': a non-empty first segment and
\* a non-empty second one
HasNamespaceTypeForm(t) ==
    /\ Len(Split(t, "/")) >= 2
    /\ Split(t, "/")[1] # <<>>
    /\ Split(t, "/")[2] # <<>>

\* the namespace and type arguments are acceptable together
TypeArgumentsFit ==
    IF Truthy(cargs.resource_type)
    THEN Truthy(cargs.resource_provider_namespace)
         \/ HasNamespaceTypeForm(cargs.resource_type)
    ELSE ~Truthy(cargs.resource_provider_namespace)

NoFilterReturned ==
    /\ cpc = "failed"
    /\ cerror # NoError
    /\ locals.odata_filter = None
    /\ \A i \in 1..Len(remote) : remote[i].op # "resources.list"

\* C12: a tag filter together with a name or a location filter is rejected
\* with a usage error and no filter string is returned; a tag filter with
\* only a resource group and/or a (well-formed) resource type is accepted.
C12_TagExcludesNameAndLocation ==
    (FilterBuilt /\ TagTruthy(cargs.tag)) =>
        IF Truthy(cargs.name) \/ Truthy(cargs.location)
        THEN /\ NoFilterReturned
             /\ TypeArgumentsFit => cerror.type = "IncorrectUsageError"
        ELSE TypeArgumentsFit => (cpc # "failed" /\ locals.odata_filter # None)

\* C12: a tag filter was rejected for the name given with it
C12_Witness ==
    /\ FilterBuilt
    /\ TagTruthy(cargs.tag)
    /\ Truthy(cargs.name)
    /\ Truthy(cargs.resource_group_name)
    /\ cerror.type = "IncorrectUsageError"

\* C13: a resource type without a namespace is rejected unless it has the
\* form 'namespace/type'; with a namespace the resourceType predicate is
\* 'namespace/type' of the two arguments; a namespace without a resource
\* type is rejected.
C13_TypeNeedsNamespace ==
    FilterBuilt =>
        LET ns == cargs.resource_provider_namespace
            t  == cargs.resource_type
            Malformed == cpc = "failed" /\ cerror.type = "CLIError"
        IN  /\ (Truthy(t) /\ ~Truthy(ns)) =>
                   /\ Malformed <=> ~HasNamespaceTypeForm(t)
                   /\ Malformed => NoFilterReturned
            /\ (Truthy(t) /\ Truthy(ns)) =>
                   /\ ~Malformed
                   /\ cpc # "failed" =>
                          \E i \in 1..Len(locals.filters) :
                              locals.filters[i] =
                                  LitResourceTypeEq \o Quote \o ns \o <<"/">> \o t \o Quote
            /\ (Truthy(ns) /\ ~Truthy(t)) => (Malformed /\ NoFilterReturned)

\* C13: a bare type without a namespace was rejected
C13_Witness ==
    /\ FilterBuilt
    /\ cargs.resource_type = <<"b">>
    /\ ~Truthy(cargs.resource_provider_namespace)
    /\ cerror.type = "CLIError"

(***************************************************************************)
(* Claims about the lock commands.                                         *)
(***************************************************************************)
LockCommands == {"create_lock", "delete_lock", "list_locks"}

\* _validate_lock_params has run
LockValidated ==
    /\ command \in LockCommands
    /\ cpc \in {"dispatch", "done", "failed"}
    /\ DOMAIN locals # {}

\* it raised, and returned no tuple
LockRejected ==
    /\ cpc = "failed"
    /\ cerror.type = "CLIError"
    /\ locals.lock_resource = None

\* C14: _validate_lock_params fails, and returns no scope tuple, whenever a
\* resource type is supplied without a resource group, and whenever a
\* resource name is supplied without a resource type (None or empty).
C14_TypeNeedsGroupAndNameNeedsType ==
    LockValidated =>
        /\ (cargs.resource_type # None /\ cargs.resource_group_name = None)
               => LockRejected
        /\ (cargs.resource_name # None /\ ~Truthy(cargs.resource_type))
               => LockRejected

\* C14: a resource name was supplied with a group and an empty type, and the
\* validation raised
C14_Witness ==
    /\ LockValidated
    /\ cargs.resource_group_name # None
    /\ cargs.resource_name # None
    /\ cargs.resource_type = <<>>
    /\ LockRejected

\* the type string carries a namespace: it has a '/'
EmbedsNamespace(t) == t # None /\ Len(Split(t, "/")) > 1

\* every field present without its prerequisite is an error
LockChainEnforced ==
    LockValidated =>
        LET g  == cargs.resource_group_name
            n  == cargs.resource_name
            t  == cargs.resource_type
            ns == cargs.resource_provider_namespace
            p  == cargs.parent_resource_path
        IN  /\ (g = None /\ (n # None \/ t # None \/ ns # None \/ p # None))
                   => LockRejected
            /\ (n = None /\ (t # None \/ ns # None \/ p # None)) => LockRejected
            /\ (n # None /\ ~EmbedsNamespace(t) /\ ns = None) => LockRejected
            /\ (n # None /\ EmbedsNamespace(t) /\ ns # None) => LockRejected

\* on success with an embedded namespace, namespace and type together are
\* the type string that was supplied
NothingOfTypeDropped ==
    (LockValidated /\ cpc # "failed" /\ cargs.resource_name # None
                   /\ EmbedsNamespace(cargs.resource_type)) =>
        locals.lock_resource[3] \o <<"/">> \o locals.lock_resource[4]
            = cargs.resource_type

\* C15 as stated: the dependency chain group -> name -> type -> namespace is
\* enforced by errors, and on success with an embedded namespace the tuple
\* carries the namespace and the bare type with nothing of the supplied type
\* string dropped.
C15_ChainEnforcedNothingDropped == LockChainEnforced /\ NothingOfTypeDropped

\* the sub-client method of a command at a level
LockMethod(level) ==
    IF command = "create_lock" THEN <<"create_or_update_at_", level>>
    ELSE IF command = "delete_lock" THEN <<"delete_at_", level>>
    ELSE <<"list_at_", level>>

\* the level the validated tuple stands for
LockLevel ==
    IF cargs.resource_group_name = None THEN "subscription_level"
    ELSE IF cargs.resource_name = None THEN "resource_group_level"
    ELSE "resource_level"

\* the method called, as a pair like LockMethod's
CalledMethod(call) ==
    CHOOSE m \in {<<c, l>> : c \in {"create_or_update_at_", "delete_at_", "list_at_"},
                             l \in {"subscription_level", "resource_group_level",
                                    "resource_level"}} :
        \/ m = <<"create_or_update_at_", "subscription_level">>
              /\ call.op = "create_or_update_at_subscription_level"
        \/ m = <<"create_or_update_at_", "resource_group_level">>
              /\ call.op = "create_or_update_at_resource_group_level"
        \/ m = <<"create_or_update_at_", "resource_level">>
              /\ call.op = "create_or_update_at_resource_level"
        \/ m = <<"delete_at_", "subscription_level">>
              /\ call.op = "delete_at_subscription_level"
        \/ m = <<"delete_at_", "resource_group_level">>
              /\ call.op = "delete_at_resource_group_level"
        \/ m = <<"delete_at_", "resource_level">>
              /\ call.op = "delete_at_resource_level"
        \/ m = <<"list_at_", "subscription_level">>
              /\ call.op = "list_at_subscription_level"
        \/ m = <<"list_at_", "resource_group_level">>
              /\ call.op = "list_at_resource_group_level"
        \/ m = <<"list_at_", "resource_level">>
              /\ call.op = "list_at_resource_level"

\* one call, of the method of the validated level; at resource level with
\* the validated namespace and type and parent standing for the parent path
OneLockCall(parent) ==
    /\ Len(remote) = 1
    /\ CalledMethod(remote[1]) = LockMethod(LockLevel)
    /\ LockLevel # "subscription_level" =>
           remote[1].resource_group_name = cargs.resource_group_name
    /\ LockLevel = "resource_level" =>
           /\ remote[1].resource_name = cargs.resource_name
           /\ remote[1].resource_provider_namespace = locals.lock_resource[3]
           /\ remote[1].resource_type = locals.lock_resource[4]
           /\ remote[1].parent_resource_path = parent

\* C16 as stated: each of the three lock commands makes exactly one call, of
\* the method matching the validated level, and at resource level passes the
\* validated namespace and bare type and '' for an absent parent path.
C16_OneCallAtValidatedLevel ==
    (command \in LockCommands) =>
        IF cpc = "done"
        THEN OneLockCall(OrEmpty(cargs.parent_resource_path))
        ELSE remote = <<>>

\* what create_lock and delete_lock do, and list_locks with a parent path
LockCallsAsCoded ==
    (command \in LockCommands) =>
        IF cpc = "done"
        THEN OneLockCall(IF command = "list_locks"
                         THEN cargs.parent_resource_path
                         ELSE OrEmpty(cargs.parent_resource_path))
        ELSE remote = <<>>

(***************************************************************************)
(* Claims about the policy assignment commands.                            *)
(***************************************************************************)
\* create, delete or show has built its scope
PolicyScopeBuilt ==
    /\ command \in {"create_policy_assignment", "delete_policy_assignment",
                    "show_policy_assignment"}
    /\ cpc \in {"resolve", "call", "done", "failed"}

\* the scope the scope and resource-group arguments ask for
RequestedScope ==
    IF Truthy(cargs.scope) THEN cargs.scope
    ELSE IF Truthy(cargs.resource_group_name)
    THEN GroupScope(service.subscription_id, cargs.resource_group_name)
    ELSE SubscriptionScope(service.subscription_id)

\* C17: the scope built is the explicit scope when only a scope is given,
\* '/subscriptions/<id>/resourceGroups/<group>' when only a resource group
\* is given and '/subscriptions/<id>' when neither is; a scope together with
\* a resource group is an error; create, delete and show pass the scope
\* built to their remote call.
C17_PolicyScope ==
    PolicyScopeBuilt =>
        IF Truthy(cargs.scope) /\ Truthy(cargs.resource_group_name)
        THEN /\ cpc = "failed"
             /\ cerror.type = "CLIError"
             /\ remote = <<>>
        ELSE /\ cpc # "failed"
             /\ locals.scope = RequestedScope
             /\ cpc = "done" =>
                    /\ remote[Len(remote)].op \in {"policy_assignments.create",
                                                   "policy_assignments.delete",
                                                   "policy_assignments.get"}
                    /\ remote[Len(remote)].scope = RequestedScope
                    /\ command = "create_policy_assignment" =>
                           remote[Len(remote)].assignment.scope = RequestedScope

\* C17: an assignment was created at the scope of the resource group given
C17_Witness ==
    /\ command = "create_policy_assignment"
    /\ cpc = "done"
    /\ cargs.resource_group_name = <<"g">>
    /\ remote[Len(remote)].scope =
           <<"/">> \o SegSubscriptions \o <<"/","s","/">> \o SegResourceGroups \o <<"/","g">>

ListPolicyDone == command = "list_policy_assignment" /\ cpc = "done"

\* the assignments of a listing whose scope is the given one, case ignored
WithScope(listing, scope) ==
    LET Same(i) == Lower(i.scope) = Lower(scope)
    IN  SelectSeq(listing, Same)

\* C20 as stated: unless disable_scope_strict_match is set, the assignments
\* returned are exactly those of the remote listing whose scope equals, case
\* ignored, the scope requested through the scope or resource-group argument
\* (the subscription scope when neither is given); when it is set the
\* remote listing is returned as it is.
C20_StrictMatchOfRequestedScope ==
    (ListPolicyDone /\ ~(Truthy(cargs.scope) /\ Truthy(cargs.resource_group_name))) =>
        IF ~cargs.disable_scope_strict_match
        THEN returned = WithScope(service.listing, RequestedScope)
        ELSE returned = service.listing

\* what the code filters on: the scope built from the current subscription
\* and the resource group taken out of the scope argument
ListPolicyMatchesBuiltScope ==
    ListPolicyDone =>
        IF ~cargs.disable_scope_strict_match
        THEN returned = WithScope(service.listing, locals._scope)
        ELSE returned = service.listing

(***************************************************************************)
(* Claims about the export commands.                                       *)
(***************************************************************************)
\* an export command has ended, on a response that carries an error object
ExportEndedOnError ==
    /\ command \in {"export_group_as_template", "export_deployment_as_template"}
    /\ cpc \in {"done", "failed"}
    /\ service.error.present

\* the failure the claim describes: the first detail message, or else the
\* error object, is raised and no template is printed
ExportFailed ==
    LET error == service.error
        first == error.has_details /\ error.details # <<>>
                     /\ error.details[1].has_message
    IN  /\ cpc = "failed"
        /\ cerror.type = "CLIError"
        /\ cerror.arg = IF first THEN [message |-> error.details[1].message]
                        ELSE [object |-> error]
        /\ printed = <<>>

\* C18 as stated: export_group_as_template and export_deployment_as_template
\* both treat a returned response that carries an error object as a failure:
\* they raise the first detail message, or else the error object, and print
\* no template.
C18_ExportsFailOnEmbeddedError == ExportEndedOnError => ExportFailed

\* what holds of export_group_as_template alone
ExportGroupFailsOnEmbeddedError ==
    (ExportEndedOnError /\ command = "export_group_as_template") => ExportFailed

(***************************************************************************)
(* Claims about move_resource.                                             *)
(***************************************************************************)
MoveEnded == command = "move_resource" /\ cpc \in {"done", "failed"}

\* an id with a subscription, a resource group and a resource under a
\* provider
WellFormedId(id) ==
    LET segs == Split(id, "/")
    IN  /\ Len(segs) >= 9
        /\ Len(segs) % 2 = 1
        /\ segs[2] = SegSubscriptions
        /\ segs[4] = SegResourceGroups
        /\ segs[6] = SegProviders

SubscriptionOf(id) == Split(id, "/")[3]

GroupOf(id) == Split(id, "/")[5]

\* some id is invalid, or two ids differ in subscription or in group
MoveUnacceptable ==
    \/ \E i \in 1..Len(cargs.ids) : ~WellFormedId(cargs.ids[i])
    \/ \E i, j \in 1..Len(cargs.ids) :
           \/ SubscriptionOf(cargs.ids[i]) # SubscriptionOf(cargs.ids[j])
           \/ GroupOf(cargs.ids[i]) # GroupOf(cargs.ids[j])

\* C19: when an id is not a valid resource id, or the ids are not all of one
\* subscription, or not all of one resource group, move_resource raises and
\* never calls the remote move; when it does call it, the source group is
\* the group the ids share and the target is made of the destination
\* subscription (the client's own when none is given) and destination group.
C19_MoveOnlyWithinOneGroup ==
    MoveEnded =>
        IF MoveUnacceptable
        THEN /\ cpc = "failed"
             /\ cerror.type = "CLIError"
             /\ remote = <<>>
        ELSE IF cpc = "done"
        THEN remote =
               <<[op |-> "resources.move_resources",
                  source_resource_group_name |-> GroupOf(cargs.ids[1]),
                  resources |-> cargs.ids,
                  target_resource_group |->
                      Join(<< <<>>, SegSubscriptions,
                              IF Truthy(cargs.destination_subscription_id)
                              THEN cargs.destination_subscription_id
                              ELSE service.subscription_id,
                              SegResourceGroups, cargs.destination_group >>, "/")]>>
        ELSE remote = <<>>

\* C19: two valid ids of one subscription and of different groups were
\* given, and nothing was moved
C19_Witness ==
    /\ MoveEnded
    /\ Len(cargs.ids) = 2
    /\ \A i \in 1..2 : WellFormedId(cargs.ids[i])
    /\ SubscriptionOf(cargs.ids[1]) = SubscriptionOf(cargs.ids[2])
    /\ GroupOf(cargs.ids[1]) # GroupOf(cargs.ids[2])
    /\ cpc = "failed"
    /\ remote = <<>>

(***************************************************************************)
(* Claims about update_lock.                                               *)
(***************************************************************************)
UpdateLockDone == command = "update_lock" /\ cpc = "done"

\* the attribute of an object, or None when it has none of that name
Attr(obj, attr) == IF attr \in DOMAIN obj THEN obj[attr] ELSE None

\* the lock is written back once, at the level it was fetched from
SubmittedWhereFetched ==
    /\ Len(remote) = 2
    /\ IF cargs.resource_group_name = None
       THEN /\ remote[1].op = "get"
            /\ remote[2].op = "create_or_update_at_subscription_level"
       ELSE /\ remote[1].op = "get_at_resource_group_level"
            /\ remote[2].op = "create_or_update_at_resource_group_level"
            /\ remote[1].resource_group_name = cargs.resource_group_name
            /\ remote[2].resource_group_name = cargs.resource_group_name

\* C21 as stated: the lock object update_lock submits has the level given,
\* when one is given, and the notes given, when they are given; every field
\* whose argument is None keeps the value fetched from the service; the
\* object is submitted at the level it was fetched from.
C21_OnlySuppliedFieldsChange ==
    UpdateLockDone =>
        LET sent == remote[Len(remote)].parameters
        IN  /\ SubmittedWhereFetched
            /\ sent.level = IF cargs.level # None THEN cargs.level
                            ELSE service.lock.level
            /\ sent.notes = IF cargs.notes # None THEN cargs.notes
                            ELSE service.lock.notes
            /\ sent.name = service.lock.name
            /\ sent.id = service.lock.id
            /\ sent.type = service.lock.type

\* what update_lock does: the level given is set, the notes given are put in
\* an attribute named 'nodes', and the notes are always those fetched
UpdateLockLeavesNotes ==
    UpdateLockDone =>
        LET sent == remote[Len(remote)].parameters
        IN  /\ SubmittedWhereFetched
            /\ sent.level = IF cargs.level # None THEN cargs.level
                            ELSE service.lock.level
            /\ sent.notes = service.lock.notes
            /\ Attr(sent, "nodes") = cargs.notes
            /\ sent.name = service.lock.name
            /\ sent.id = service.lock.id
            /\ sent.type = service.lock.type

\* the level check of create_lock or _validate_lock_params has raised
LockValidationRaised == command \in LockCommands /\ cpc = "failed"

\* C22: validation precedes the remote dispatch: once the level check of
\* create_lock or _validate_lock_params has raised in create_lock,
\* delete_lock or list_locks, no method of the management-lock sub-client
\* has been called, and none is called afterwards.
C22_NoLockCallOnceValidationRaised ==
    [](LockValidationRaised => [](remote = <<>>))

\* C22: create_lock was given a level that is neither 'ReadOnly' nor
\* 'CanNotDelete' together with a resource group, and raised
C22_Witness ==
    /\ LockValidationRaised
    /\ command = "create_lock"
    /\ cargs.level = Lower(LevelReadOnly)
    /\ cargs.resource_group_name = <<"g">>
    /\ cerror.type = "CLIError"
    /\ remote = <<>>

(***************************************************************************)
(* Claims about the generic resource commands.                             *)
(***************************************************************************)
GenericCommands ==
    {"show_resource", "delete_resource", "update_resource", "tag_resource"}

\* the calls of the generic-resource sub-client made so far
GenericCalls ==
    LET IsGeneric(c) == c.op \in {"resources.get", "resources.delete",
                                  "resources.create_or_update"}
    IN  SelectSeq(calls, IsGeneric)

\* the calls a command makes in all: tag gets the resource, then writes it
ExpectedMethods ==
    IF command = "show_resource" THEN <<"resources.get">>
    ELSE IF command = "delete_resource" THEN <<"resources.delete">>
    ELSE IF command = "update_resource" THEN <<"resources.create_or_update">>
    ELSE <<"resources.get", "resources.create_or_update">>

\* C23: with an api_version argument, _ResourceUtils looks no provider up
\* and validates no input, every generic-resource call uses exactly that
\* version, the by-id methods are used if and only if a resource id was
\* given, and the explicit-parts methods get '' for an absent parent path.
C23_GivenVersionIsUsedAsIs ==
    (command \in GenericCommands /\ args.api_version # None) =>
        /\ \A i \in 1..Len(calls) : calls[i].op # "providers.get"
        /\ resolve_calls = <<>>
        /\ rerror = NoError
        /\ rpc # "failed"
        /\ rpc = "done" => GenericCalls = calls /\ Len(calls) = Len(ExpectedMethods)
        /\ \A i \in 1..Len(calls) :
               /\ calls[i].op = ExpectedMethods[i]
               /\ calls[i].api_version = args.api_version
               /\ calls[i].by_id <=> Truthy(args.resource_id)
               /\ calls[i].by_id => calls[i].resource_id = args.resource_id
               /\ ~calls[i].by_id =>
                      calls[i].parent_resource_path =
                          IF Truthy(args.parent_resource_path)
                          THEN args.parent_resource_path ELSE <<>>

\* C23: tag_resource was given an api_version and no resource id or parent
\* path, and has made its two calls
C23_Witness ==
    /\ command = "tag_resource"
    /\ rpc = "done"
    /\ args.api_version = Preview17
    /\ args.resource_id = None
    /\ args.parent_resource_path = None
    /\ Len(calls) = 2
    /\ calls[2].parent_resource_path = <<>>

====
